---- MODULE Spec2Model ----
(***************************************************************************)
(* A model of goslugify (src/slug.go, src/langs.go).                       *)
(*                                                                         *)
(* A Go string is modelled as a sequence of units.  A unit is either one   *)
(* valid code point, written as a one-character name ("a", "-", " ") or as *)
(* its U+ name ("U+00D6"), or the single invalid byte "0xFF".  Functions   *)
(* of the library that are values in Go (StringModifierFunc,               *)
(* RuneHandleFunc) are modelled as records naming the function and the     *)
(* values its closure captured; Apply and HandleRune interpret them.       *)
(***************************************************************************)
EXTENDS Integers, Sequences, FiniteSets, TLC

VARIABLES
    \* SlugConfig, Configure and GetValidator (Spec)
    config, cin, gens, out, valid,
    \* the package's GenerateSlug and IsSlug (SpecDefault)
    din, dout, dvalid,
    \* SlugGenerator and its With... derivations (SpecGen)
    heap, origin, gin, gcall,
    \* MergeStringReplaceMaps (SpecMerge)
    mapHeap, margs, mres,
    \* ConstantReplacer (SpecReplace)
    cr, crin, crout,
    \* rune handlers (SpecRune)
    rhandler, rin, rpos, rbuf, rlast,
    \* string transform primitives (SpecPrim)
    pf, pin, pout,
    \* a config, its maps, and the generators and validators made from it (SpecFrame)
    fconfig, fmaps, fgens, fvals, fcall, fchanges,
    \* one ConstantReplacer shared by goroutines calling Modify (SpecOnce)
    ocr, omutex, opc, oin, oout, obuilt, ocalls,
    \* the registry of language maps (SpecLang)
    languageMaps, lheap, lcall

configVars == <<config, cin, gens, out, valid>>
defaultVars == <<din, dout, dvalid>>
genVars == <<heap, origin, gin, gcall>>
mergeVars == <<mapHeap, margs, mres>>
replVars == <<cr, crin, crout>>
runeVars == <<rhandler, rin, rpos, rbuf, rlast>>
primVars == <<pf, pin, pout>>
frameVars == <<fconfig, fmaps, fgens, fvals, fcall, fchanges>>
onceVars == <<ocr, omutex, opc, oin, oout, obuilt, ocalls>>
langVars == <<languageMaps, lheap, lcall>>
vars == <<configVars, defaultVars, genVars, mergeVars, replVars, runeVars, primVars, frameVars,
          onceVars, langVars>>

(***************************************************************************)
(* Bounds of the model.                                                    *)
(***************************************************************************)
MaxInputLen == 3
MaxTruncateLength == 2
MaxGenerators == 2
MaxDefaultInputLen == 4
MaxHeap == 3
MaxGenInputLen == 2
MaxMaps == 2
MaxPairs == 2
MaxReplInputLen == 3
MaxChainLen == 2
MaxRuneInputLen == 2
MaxPrimInputLen == 4
MaxPrimLength == 3
MaxFrameChanges == 2
MaxFrameGenerators == 2
MaxFrameValidators == 1
MaxFrameMaps == 1
MaxGoroutines == 3
MaxOnceCalls == 3
MaxLangCalls == 2
MaxLangAdds == 2
MaxLangStores == 1

(***************************************************************************)
(* Sequences of units.                                                     *)
(***************************************************************************)
Panic == <<"<panic>">>

RECURSIVE StringsUpTo(_, _)
StringsUpTo(alphabet, n) ==
    IF n = 0 THEN {<<>>}
    ELSE LET shorter == StringsUpTo(alphabet, n - 1)
         IN shorter \cup {Append(s, u) : s \in {t \in shorter : Len(t) = n - 1}, u \in alphabet}

RECURSIVE Concat(_)
Concat(strs) == IF strs = <<>> THEN <<>> ELSE Head(strs) \o Concat(Tail(strs))

RECURSIVE Orderings(_)
Orderings(S) ==
    IF S = {} THEN {<<>>}
    ELSE UNION {{<<x>> \o p : p \in Orderings(S \ {x})} : x \in S}

HasPrefixAt(s, i, p) ==
    /\ i + Len(p) - 1 <= Len(s)
    /\ \A k \in 1..Len(p) : s[i + k - 1] = p[k]

Occurs(s, p) == \E i \in 1..(Len(s) + 1) : HasPrefixAt(s, i, p)

(***************************************************************************)
(* Code points.                                                            *)
(***************************************************************************)
InvalidByte == "0xFF"
RuneError == "U+FFFD"

LowerSeq == <<"a","b","c","d","e","f","g","h","i","j","k","l","m",
              "n","o","p","q","r","s","t","u","v","w","x","y","z">>
UpperSeq == <<"A","B","C","D","E","F","G","H","I","J","K","L","M",
              "N","O","P","Q","R","S","T","U","V","W","X","Y","Z">>
LowerLetters == {LowerSeq[i] : i \in 1..Len(LowerSeq)}
UpperLetters == {UpperSeq[i] : i \in 1..Len(UpperSeq)}
Digits == {"0","1","2","3","4","5","6","7","8","9"}

\* for _, r := range s: an invalid byte is read as U+FFFD
RuneOf(u) == IF u = InvalidByte THEN RuneError ELSE u
ToRunes(s) == [i \in 1..Len(s) |-> RuneOf(s[i])]

\* unicode.IsSpace
SpaceRunes == {" ", "\t", "\n", "U+00A0"}
\* unicode.In(r, unicode.Hyphen, unicode.Dash)
DashRunes == {"-", "U+2010", "U+2014", "U+2E1A", "U+FF0D"}


(***************************************************************************)
(* Rune rules (RuneHandleFunc).  A handler is a record naming the function *)
(* and what its closure holds; HandleRune(h, r) is the call h(r), giving   *)
(* the pair (handles, to).                                                 *)
(***************************************************************************)
Handled(to) == [handles |-> TRUE, to |-> to]
NotHandled == [handles |-> FALSE, to |-> <<>>]

KeepAllFunc(r) == Handled(<<r>>)

TranslateUmlaut(r) ==
    CASE r = "U+00D6" -> Handled(<<"O", "e">>)
      [] r = "U+00F6" -> Handled(<<"o", "e">>)
      [] r = "U+00C4" -> Handled(<<"A", "e">>)
      [] r = "U+00E4" -> Handled(<<"a", "e">>)
      [] r = "U+00DC" -> Handled(<<"U", "e">>)
      [] r = "U+00FC" -> Handled(<<"u", "e">>)
      [] r \in {"U+00DF", "U+1E9E"} -> Handled(<<"s", "s">>)
      [] OTHER -> NotHandled

NewRuneHandleFuncFromMap(m, r) ==
    IF r \in DOMAIN m THEN Handled(m[r]) ELSE NotHandled

NewSpaceReplacerFunc(replaceBy, r) ==
    IF r \in SpaceRunes THEN Handled(replaceBy) ELSE NotHandled

isValidSlugRuneLowerCase(r) ==
    r \in LowerLetters \/ r \in Digits \/ r = "-" \/ r = "_"

isValidSlugRuneIgnoreCase(r) ==
    r \in UpperLetters \/ r \in LowerLetters \/ r \in Digits \/ r = "-" \/ r = "_"

ValidSlugRuneReplaceFunc(r) ==
    IF isValidSlugRuneIgnoreCase(r) THEN Handled(<<r>>) ELSE NotHandled

ReplaceDashAndHyphens(r) ==
    IF r \in DashRunes THEN Handled(<<"-">>) ELSE NotHandled

HKeepAll == [op |-> "KeepAllFunc"]
HUmlaut == [op |-> "TranslateUmlaut"]
HValidSlug == [op |-> "ValidSlugRuneReplaceFunc"]
HDash == [op |-> "ReplaceDashAndHyphens"]
HSpace(replaceBy) == [op |-> "NewSpaceReplacerFunc", replaceBy |-> replaceBy]
HFromMap(m) == [op |-> "NewRuneHandleFuncFromMap", m |-> m]
HChain(funcs) == [op |-> "ChainRuneHandleFuncs", funcs |-> funcs]

RECURSIVE HandleRune(_, _)
RECURSIVE ChainRuneHandleFuncs(_, _)

\* a chain in which a later function overrules an earlier one
RECURSIVE ChainRuneHandleFuncs_lastWins(_, _)
ChainRuneHandleFuncs_lastWins(funcs, r) ==
    IF funcs = <<>> THEN NotHandled
    ELSE LET res == HandleRune(funcs[Len(funcs)], r)
         IN IF res.handles THEN Handled(res.to)
            ELSE ChainRuneHandleFuncs_lastWins(SubSeq(funcs, 1, Len(funcs) - 1), r)

\* the loop of the chained function: the first function that handles r
ChainRuneHandleFuncs(funcs, r) ==
    IF funcs = <<>> THEN NotHandled
    ELSE LET res == HandleRune(Head(funcs), r)
         IN IF res.handles THEN Handled(res.to)
            ELSE ChainRuneHandleFuncs(Tail(funcs), r)

HandleRune(h, r) ==
    CASE h.op = "KeepAllFunc" -> KeepAllFunc(r)
      [] h.op = "TranslateUmlaut" -> TranslateUmlaut(r)
      [] h.op = "ValidSlugRuneReplaceFunc" -> ValidSlugRuneReplaceFunc(r)
      [] h.op = "ReplaceDashAndHyphens" -> ReplaceDashAndHyphens(r)
      [] h.op = "NewSpaceReplacerFunc" -> NewSpaceReplacerFunc(h.replaceBy, r)
      [] h.op = "NewRuneHandleFuncFromMap" -> NewRuneHandleFuncFromMap(h.m, r)
      [] h.op = "ChainRuneHandleFuncs" -> ChainRuneHandleFuncs(h.funcs, r)

\* an iteration that keeps a code point the handler does not handle
RuneHandleStep_keepsUnhandled(runeHandler, buf, u) ==
    LET res == HandleRune(runeHandler, RuneOf(u))
    IN IF res.handles THEN buf \o res.to ELSE Append(buf, RuneOf(u))

\* one iteration of the loop of RuneHandleFuncToStringModifierFunc
RuneHandleStep(runeHandler, buf, u) ==
    LET res == HandleRune(runeHandler, RuneOf(u))
    IN IF res.handles THEN buf \o res.to ELSE buf

RECURSIVE RuneHandleLoop(_, _, _)
RuneHandleLoop(runeHandler, buf, rest) ==
    IF rest = <<>> THEN buf
    ELSE RuneHandleLoop(runeHandler, RuneHandleStep(runeHandler, buf, Head(rest)), Tail(rest))

RuneHandleFuncToStringModifierFunc(runeHandler, in) == RuneHandleLoop(runeHandler, <<>>, in)

(***************************************************************************)
(* String transform primitives.                                            *)
(***************************************************************************)
\* strings.ToValidUTF8(in, "")
IgnoreInvalidUTF8(in) == SelectSeq(in, LAMBDA u : u # InvalidByte)

\* golang.org/x/text/unicode/norm on the code points of the model
CanonicalDecomposition(r) ==
    CASE r = "U+00D6" -> <<"O", "U+0308">>
      [] r = "U+00F6" -> <<"o", "U+0308">>
      [] r = "U+00C4" -> <<"A", "U+0308">>
      [] r = "U+00E4" -> <<"a", "U+0308">>
      [] r = "U+00DC" -> <<"U", "U+0308">>
      [] r = "U+00FC" -> <<"u", "U+0308">>
      [] OTHER -> <<r>>

CompatibilityDecomposition(r) ==
    CASE r = "U+FB01" -> <<"f", "i">>
      [] r = "U+FF0D" -> <<"-">>
      [] r = "U+00A0" -> <<" ">>
      [] OTHER -> CanonicalDecomposition(r)

Composed(base) ==
    CASE base = "O" -> "U+00D6"
      [] base = "o" -> "U+00F6"
      [] base = "A" -> "U+00C4"
      [] base = "a" -> "U+00E4"
      [] base = "U" -> "U+00DC"
      [] base = "u" -> "U+00FC"
      [] OTHER -> base

RECURSIVE Compose(_)
Compose(s) ==
    IF Len(s) < 2 THEN s
    ELSE IF s[2] = "U+0308" /\ Composed(s[1]) # s[1]
         THEN <<Composed(s[1])>> \o Compose(SubSeq(s, 3, Len(s)))
         ELSE <<s[1]>> \o Compose(Tail(s))

Decompose(s, compat) ==
    Concat([i \in 1..Len(s) |->
        IF compat THEN CompatibilityDecomposition(s[i]) ELSE CanonicalDecomposition(s[i])])

FormString(form, in) ==
    CASE form = "NFC" -> Compose(Decompose(in, FALSE))
      [] form = "NFD" -> Decompose(in, FALSE)
      [] form = "NFKC" -> Compose(Decompose(in, TRUE))
      [] form = "NFKD" -> Decompose(in, TRUE)

ValidForms == {"NFC", "NFD", "NFKC", "NFKD"}

\* UTF8Normalizer.Modify
UTF8NormalizerModify(form, in) ==
    IF form \in ValidForms THEN FormString(form, in) ELSE in

\* norm.Form.IsNormalString
IsNormalString(form, s) == FormString(form, s) = s

\* unicode.ToLower
ToLowerRune(r) ==
    CASE r \in UpperLetters -> LowerSeq[CHOOSE i \in 1..Len(UpperSeq) : UpperSeq[i] = r]
      [] r = "U+00D6" -> "U+00F6"
      [] r = "U+00C4" -> "U+00E4"
      [] r = "U+00DC" -> "U+00FC"
      [] r = "U+1E9E" -> "U+00DF"
      [] OTHER -> r

\* strings.ToLower
ToLower(in) == [i \in 1..Len(in) |-> ToLowerRune(RuneOf(in[i]))]

\* a replacer that looks the inserted text up again
RECURSIVE ReplacerReplace_rescans(_, _, _)
ReplacerReplace_rescans(oldnew, s, i) ==
    IF i > Len(s) THEN <<>>
    ELSE LET pairs == 1..(Len(oldnew) \div 2)
             matches == {k \in pairs : HasPrefixAt(s, i, oldnew[2 * k - 1])}
         IN IF matches = {}
            THEN <<s[i]>> \o ReplacerReplace_rescans(oldnew, s, i + 1)
            ELSE LET k == CHOOSE m \in matches : \A n \in matches : m <= n
                     again == {j \in pairs : oldnew[2 * j - 1] = oldnew[2 * k]}
                     new == IF again = {} THEN oldnew[2 * k]
                            ELSE oldnew[2 * (CHOOSE j \in again : \A n \in again : j <= n)]
                 IN new \o ReplacerReplace_rescans(oldnew, s, i + Len(oldnew[2 * k - 1]))

\* strings.Replacer.Replace for non-empty old strings: at each position, from the
\* left, the first pair in argument order whose old string matches there is taken
RECURSIVE ReplacerReplace(_, _, _)
ReplacerReplace(oldnew, s, i) ==
    IF i > Len(s) THEN <<>>
    ELSE LET matches == {k \in 1..(Len(oldnew) \div 2) : HasPrefixAt(s, i, oldnew[2 * k - 1])}
         IN IF matches = {}
            THEN <<s[i]>> \o ReplacerReplace(oldnew, s, i + 1)
            ELSE LET k == CHOOSE m \in matches : \A n \in matches : m <= n
                 IN oldnew[2 * k] \o ReplacerReplace(oldnew, s, i + Len(oldnew[2 * k - 1]))

\* strings.Split
RECURSIVE SplitFrom(_, _, _, _)
SplitFrom(s, sep, i, word) ==
    IF i > Len(s) THEN <<word>>
    ELSE IF HasPrefixAt(s, i, sep)
         THEN <<word>> \o SplitFrom(s, sep, i + Len(sep), <<>>)
         ELSE SplitFrom(s, sep, i + 1, Append(word, s[i]))

Split(s, sep) ==
    IF sep = <<>> THEN [i \in 1..Len(s) |-> <<s[i]>>]
    ELSE SplitFrom(s, sep, 1, <<>>)

\* utf8.RuneCountInString
RuneCountInString(s) == Len(s)


\* a loop that never remembers that it has just written the rune
RECURSIVE ReplaceMultiLoop_forgetsLast(_, _, _, _)
ReplaceMultiLoop_forgetsLast(in, rest, isLastInRune, buf) ==
    IF rest = <<>> THEN buf
    ELSE LET r == RuneOf(Head(rest))
         IN IF r = in
            THEN IF ~isLastInRune
                 THEN ReplaceMultiLoop_forgetsLast(in, Tail(rest), isLastInRune, Append(buf, r))
                 ELSE ReplaceMultiLoop_forgetsLast(in, Tail(rest), isLastInRune, buf)
            ELSE ReplaceMultiLoop_forgetsLast(in, Tail(rest), FALSE, Append(buf, r))

\* the loop of the function NewReplaceMultiOccurrencesFunc returns
RECURSIVE ReplaceMultiLoop(_, _, _, _)
ReplaceMultiLoop(in, rest, isLastInRune, buf) ==
    IF rest = <<>> THEN buf
    ELSE LET r == RuneOf(Head(rest))
         IN IF r = in
            THEN IF ~isLastInRune
                 THEN ReplaceMultiLoop(in, Tail(rest), TRUE, Append(buf, r))
                 ELSE ReplaceMultiLoop(in, Tail(rest), isLastInRune, buf)
            ELSE ReplaceMultiLoop(in, Tail(rest), FALSE, Append(buf, r))

\* a function that starts as if it had just written the rune
NewReplaceMultiOccurrencesFunc_startsInRun(in, s) == ReplaceMultiLoop(in, s, TRUE, <<>>)

NewReplaceMultiOccurrencesFunc(in, s) == ReplaceMultiLoop(in, s, FALSE, <<>>)

\* a loop that leaves the separator out of the length it counts
RECURSIVE TruncateLoop_ignoresSeparatorLength(_, _, _, _, _)
TruncateLoop_ignoresSeparatorLength(maxLength, wordSep, words, currentLen, buf) ==
    IF words = <<>> THEN buf
    ELSE LET nextLen == currentLen + RuneCountInString(Head(words))
         IN IF nextLen > maxLength THEN buf
            ELSE TruncateLoop_ignoresSeparatorLength(maxLength, wordSep, Tail(words), nextLen,
                                                     buf \o wordSep \o Head(words))

\* a loop that never takes the last word
RECURSIVE TruncateLoop_leavesLastWord(_, _, _, _, _)
TruncateLoop_leavesLastWord(maxLength, wordSep, words, currentLen, buf) ==
    IF Len(words) <= 1 THEN buf
    ELSE LET nextLen == currentLen + RuneCountInString(wordSep) + RuneCountInString(Head(words))
         IN IF nextLen > maxLength THEN buf
            ELSE TruncateLoop_leavesLastWord(maxLength, wordSep, Tail(words), nextLen,
                                             buf \o wordSep \o Head(words))

\* the function NewTruncateFunc returns
RECURSIVE TruncateLoop(_, _, _, _, _)
TruncateLoop(maxLength, wordSep, words, currentLen, buf) ==
    IF words = <<>> THEN buf
    ELSE LET nextLen == currentLen + RuneCountInString(wordSep) + RuneCountInString(Head(words))
         IN IF nextLen > maxLength THEN buf
            ELSE TruncateLoop(maxLength, wordSep, Tail(words), nextLen,
                              buf \o wordSep \o Head(words))

\* a truncation that slices the first word without looking at its length
NewTruncateFunc_slicesUnchecked(maxLength, wordSep, in) ==
    IF maxLength < 0 THEN in
    ELSE IF in = <<>> THEN in
    ELSE LET firstRunes == ToRunes(Split(in, wordSep)[1])
         IN IF Len(firstRunes) >= maxLength THEN SubSeq(firstRunes, 1, maxLength) ELSE Panic

NewTruncateFunc(maxLength, wordSep, in) ==
    IF maxLength < 0 THEN in
    ELSE IF in = <<>> THEN in
    ELSE LET split == Split(in, wordSep)
             firstRunes == ToRunes(split[1])
         IN IF Len(firstRunes) >= maxLength
            THEN SubSeq(firstRunes, 1, maxLength)
            ELSE TruncateLoop(maxLength, wordSep, Tail(split), Len(firstRunes), split[1])

\* strings.Trim
RECURSIVE TrimLeft(_, _)
TrimLeft(s, cut) ==
    IF s # <<>> /\ RuneOf(Head(s)) \in cut THEN TrimLeft(Tail(s), cut) ELSE s

RECURSIVE TrimRight(_, _)
TrimRight(s, cut) ==
    IF s # <<>> /\ RuneOf(s[Len(s)]) \in cut THEN TrimRight(SubSeq(s, 1, Len(s) - 1), cut) ELSE s

\* a trim that takes cutset as one literal prefix and suffix
NewTrimFunc_literal(cutset, in) ==
    LET n == Len(cutset)
        a == IF n > 0 /\ HasPrefixAt(in, 1, cutset) THEN SubSeq(in, n + 1, Len(in)) ELSE in
    IN IF n > 0 /\ Len(a) >= n /\ HasPrefixAt(a, Len(a) - n + 1, cutset)
       THEN SubSeq(a, 1, Len(a) - n) ELSE a

NewTrimFunc(cutset, in) ==
    LET cut == {RuneOf(cutset[i]) : i \in 1..Len(cutset)}
    IN TrimRight(TrimLeft(in, cut), cut)

\* ConstantReplacer.Modify on a replacer whose matcher is built from oldnew
ConstantReplacerModify(oldnew, in) == ReplacerReplace(oldnew, in, 1)

\* NewConstantReplacer
NewConstantReplacer(oldnew) == [OldNew |-> oldnew, replacer |-> <<>>, onceDone |-> FALSE]

\* replacer.once.Do(...): the matcher is built from OldNew by the first call only
OnceDo(replacer) ==
    IF replacer.onceDone THEN replacer
    ELSE [replacer EXCEPT !.replacer = <<replacer.OldNew>>, !.onceDone = TRUE]

\* the loop of WordReplacer.Modify over the words
RECURSIVE WordReplacerLoop(_, _, _, _, _)
WordReplacerLoop(wordMap, wordSeparator, words, first, buf) ==
    IF words = <<>> THEN buf
    ELSE LET word == Head(words)
             replaceBy == IF word \in DOMAIN wordMap THEN wordMap[word] ELSE word
         IN WordReplacerLoop(wordMap, wordSeparator, Tail(words), FALSE,
                (IF first THEN buf ELSE buf \o wordSeparator) \o replaceBy)

\* a word replacer that replaces its keys wherever they occur
WordReplacerModify_replacesInsideWords(wordMap, wordSeparator, in) ==
    LET keys == CHOOSE order \in Orderings(DOMAIN wordMap \ {<<>>}) : TRUE
    IN ReplacerReplace(Concat([i \in 1..Len(keys) |-> <<keys[i], wordMap[keys[i]]>>]), in, 1)

\* WordReplacer.Modify
WordReplacerModify(wordMap, wordSeparator, in) ==
    WordReplacerLoop(wordMap, wordSeparator, Split(in, wordSeparator), TRUE, <<>>)

(***************************************************************************)
(* StringModifierFunc values.  A modifier is a record naming the function  *)
(* and what its closure holds; Apply(f, in) is the call f(in).  Calling    *)
(* the nil function panics; a panic ends the whole call.                   *)
(***************************************************************************)
NilFunc == [op |-> "nil"]
FIgnoreInvalidUTF8 == [op |-> "IgnoreInvalidUTF8"]
FNormalizer(form) == [op |-> "UTF8Normalizer", form |-> form]
FToLower == [op |-> "strings.ToLower"]
FConstantReplacer(oldnew) == [op |-> "ConstantReplacer", oldnew |-> oldnew]
FRuneHandler(runeHandler) == [op |-> "RuneHandleFuncToStringModifierFunc", handler |-> runeHandler]
FReplaceMulti(in) == [op |-> "NewReplaceMultiOccurrencesFunc", rune |-> in]
FTrim(cutset) == [op |-> "NewTrimFunc", cutset |-> cutset]
FTruncate(maxLength, wordSep) == [op |-> "NewTruncateFunc", maxLength |-> maxLength, wordSep |-> wordSep]
FChain(funcs) == [op |-> "ChainStringModifierFuncs", funcs |-> funcs]
FWordReplacer(wordMap, wordSeparator) ==
    [op |-> "WordReplacer", wordMap |-> wordMap, wordSeparator |-> wordSeparator]

RECURSIVE Apply(_, _)
RECURSIVE ChainStringModifierFuncs(_, _)

\* the loop of the chained modifier: every modifier, in the order given
ChainStringModifierFuncs(funcs, in) ==
    IF funcs = <<>> THEN in
    ELSE ChainStringModifierFuncs(Tail(funcs), Apply(Head(funcs), in))

Apply(f, in) ==
    IF in = Panic THEN Panic
    ELSE CASE f.op = "nil" -> Panic
           [] f.op = "IgnoreInvalidUTF8" -> IgnoreInvalidUTF8(in)
           [] f.op = "UTF8Normalizer" -> UTF8NormalizerModify(f.form, in)
           [] f.op = "strings.ToLower" -> ToLower(in)
           [] f.op = "ConstantReplacer" -> ConstantReplacerModify(f.oldnew, in)
           [] f.op = "RuneHandleFuncToStringModifierFunc" ->
                RuneHandleFuncToStringModifierFunc(f.handler, in)
           [] f.op = "NewReplaceMultiOccurrencesFunc" -> NewReplaceMultiOccurrencesFunc(f.rune, in)
           [] f.op = "NewTrimFunc" -> NewTrimFunc(f.cutset, in)
           [] f.op = "NewTruncateFunc" -> NewTruncateFunc(f.maxLength, f.wordSep, in)
           [] f.op = "ChainStringModifierFuncs" -> ChainStringModifierFuncs(f.funcs, in)
           [] f.op = "WordReplacer" -> WordReplacerModify(f.wordMap, f.wordSeparator, in)

(***************************************************************************)
(* The default phases.                                                     *)
(***************************************************************************)
getDefaultPreProcessorsWithForm(form, toLower) ==
    <<FIgnoreInvalidUTF8>>
    \o (IF form \in ValidForms THEN <<FNormalizer(form)>> ELSE <<>>)
    \o (IF toLower THEN <<FToLower>> ELSE <<>>)

GetDefaultPreProcessors == getDefaultPreProcessorsWithForm("NFKC", TRUE)

\* processors that run the rune chain before the first actions
getDefaultProcessorsWithConfig_replacesLast(replaceBy, firstActions) ==
    LET defaultFunc == FRuneHandler(HChain(<<HSpace(replaceBy), HDash, HUmlaut, HValidSlug>>))
    IN <<defaultFunc>> \o firstActions

getDefaultProcessorsWithConfig(replaceBy, firstActions) ==
    LET defaultFunc == FRuneHandler(HChain(<<HSpace(replaceBy), HDash, HUmlaut, HValidSlug>>))
    IN Append(firstActions, defaultFunc)

GetDefaultProcessors == getDefaultProcessorsWithConfig(<<"-">>, <<>>)

\* finalizers that end in a truncate step whatever the length is
getDefaultFinalizersWithConfig_alwaysTruncates(replaceBy, truncateLength) ==
    <<FReplaceMulti(replaceBy), FTrim(<<replaceBy>>),
      FTruncate(IF truncateLength >= 0 THEN truncateLength ELSE 0, <<replaceBy>>)>>

\* finalizers without the trim step
getDefaultFinalizersWithConfig_withoutTrim(replaceBy, truncateLength) ==
    <<FReplaceMulti(replaceBy)>>
    \o (IF truncateLength >= 0 THEN <<FTruncate(truncateLength, <<replaceBy>>)>> ELSE <<>>)

getDefaultFinalizersWithConfig(replaceBy, truncateLength) ==
    <<FReplaceMulti(replaceBy), FTrim(<<replaceBy>>)>>
    \o (IF truncateLength >= 0 THEN <<FTruncate(truncateLength, <<replaceBy>>)>> ELSE <<>>)

GetDefaultFinalizers == getDefaultFinalizersWithConfig("-", -1)


(***************************************************************************)
(* SlugGenerator.                                                          *)
(***************************************************************************)
SlugGenerator(pre, proc, fin) == [PreProcessor |-> pre, Processor |-> proc, Finalizer |-> fin]

\* a GenerateSlug that finalizes before it processes
GenerateSlugStep_finalizesFirst(gen, pc, in) ==
    CASE pc = 1 -> Apply(gen.PreProcessor, in)
      [] pc = 2 -> Apply(gen.Finalizer, in)
      [] pc = 3 -> Apply(gen.Processor, in)

\* the statement of GenerateSlug at position pc (1, 2, 3), on its variable in
GenerateSlugStep(gen, pc, in) ==
    CASE pc = 1 -> Apply(gen.PreProcessor, in)
      [] pc = 2 -> Apply(gen.Processor, in)
      [] pc = 3 -> Apply(gen.Finalizer, in)

GenerateSlug(gen, in) ==
    GenerateSlugStep(gen, 3, GenerateSlugStep(gen, 2, GenerateSlugStep(gen, 1, in)))

Modify(gen, in) == GenerateSlug(gen, in)

NewEmptySlugGenerator == SlugGenerator(NilFunc, NilFunc, NilFunc)

NewDefaultSlugGenerator ==
    SlugGenerator(FChain(GetDefaultPreProcessors),
                  FChain(GetDefaultProcessors),
                  FChain(GetDefaultFinalizers))

WithPreProcessor(gen, modifier) ==
    SlugGenerator(FChain(<<modifier, gen.PreProcessor>>),
                  gen.PreProcessor,
                  gen.Finalizer)

\* a WithProcessor that puts the new modifier behind the old ones
WithProcessor_appends(gen, modifier) ==
    SlugGenerator(gen.PreProcessor,
                  FChain(<<gen.Processor, modifier>>),
                  gen.Finalizer)

WithProcessor(gen, modifier) ==
    SlugGenerator(gen.PreProcessor,
                  FChain(<<modifier, gen.Processor>>),
                  gen.Finalizer)

WithFinalizer(gen, modifier) ==
    SlugGenerator(gen.PreProcessor,
                  gen.Processor,
                  FChain(<<modifier, gen.Finalizer>>))

(***************************************************************************)
(* Replace maps.  A StringReplaceMap is a function from its keys to their  *)
(* values.                                                                 *)
(***************************************************************************)
EmptyMap == [k \in {} |-> <<>>]

\* an inner loop that overwrites the keys res already has
MergeInto_lastWins(res, m) ==
    [key \in DOMAIN res \cup DOMAIN m |-> IF key \in DOMAIN m THEN m[key] ELSE res[key]]

\* the inner loop of MergeStringReplaceMaps: the keys of m not yet in res
MergeInto(res, m) ==
    [key \in DOMAIN res \cup DOMAIN m |-> IF key \in DOMAIN res THEN res[key] ELSE m[key]]

RECURSIVE MergeLoop(_, _)
MergeLoop(res, maps) ==
    IF maps = <<>> THEN res ELSE MergeLoop(MergeInto(res, Head(maps)), Tail(maps))

MergeStringReplaceMaps(maps) == MergeLoop(EmptyMap, maps)

\* the orders in which range may visit the keys of m
KeyOrders(m) == Orderings(DOMAIN m)

\* NewConstantReplacerFromMap, range visiting the keys of m in the order keys
NewConstantReplacerFromMap(m, keys) ==
    Concat([i \in 1..Len(keys) |-> <<keys[i], m[keys[i]]>>])

(***************************************************************************)
(* SlugConfig.                                                             *)
(***************************************************************************)
\* a default config that keeps the case of the input
NewSlugConfig_keepsCase ==
    [TruncateLength |-> -1,
     WordSeparator |-> "-",
     Form |-> "NFKC",
     ReplaceMaps |-> <<>>,
     ToLower |-> FALSE]

NewSlugConfig ==
    [TruncateLength |-> -1,
     WordSeparator |-> "-",
     Form |-> "NFKC",
     ReplaceMaps |-> <<>>,
     ToLower |-> TRUE]

AddReplaceMap(c, m) == [c EXCEPT !.ReplaceMaps = Append(c.ReplaceMaps, m)]

\* GetPhases, range visiting the keys of the merged map in the order keys
GetPhases(c, keys) ==
    LET replaceMap == MergeStringReplaceMaps(c.ReplaceMaps)
    IN [pre |-> getDefaultPreProcessorsWithForm(c.Form, c.ToLower),
        processors |->
            IF Cardinality(DOMAIN replaceMap) > 0
            THEN getDefaultProcessorsWithConfig(<<c.WordSeparator>>,
                     <<FConstantReplacer(NewConstantReplacerFromMap(replaceMap, keys))>>)
            ELSE getDefaultProcessorsWithConfig(<<c.WordSeparator>>, <<>>),
        final |-> getDefaultFinalizersWithConfig(c.WordSeparator, c.TruncateLength)]

Configure(c, keys) ==
    LET phases == GetPhases(c, keys)
    IN SlugGenerator(FChain(phases.pre), FChain(phases.processors), FChain(phases.final))

\* the loop of the validator over the runes of s
RECURSIVE ValidatorLoop(_, _, _)
ValidatorLoop(c, rest, isLastSep) ==
    IF rest = <<>> THEN TRUE
    ELSE LET r == RuneOf(Head(rest))
         IN IF c.ToLower /\ ~isValidSlugRuneLowerCase(r) THEN FALSE
            ELSE IF ~c.ToLower /\ ~isValidSlugRuneIgnoreCase(r) THEN FALSE
            ELSE IF r = c.WordSeparator
                 THEN IF isLastSep THEN FALSE ELSE ValidatorLoop(c, Tail(rest), TRUE)
                 ELSE ValidatorLoop(c, Tail(rest), FALSE)

\* a validator that takes the length 0 as a bound too
Validator_boundsByZero(c, s) ==
    IF \E i \in 1..Len(s) : s[i] = InvalidByte THEN FALSE
    ELSE IF c.TruncateLength >= 0 /\ RuneCountInString(s) > c.TruncateLength THEN FALSE
    ELSE IF c.Form \in ValidForms /\ ~IsNormalString(c.Form, s) THEN FALSE
    ELSE IF HasPrefixAt(s, 1, <<c.WordSeparator>>)
            \/ (s # <<>> /\ s[Len(s)] = c.WordSeparator) THEN FALSE
    ELSE ValidatorLoop(c, s, FALSE)

\* the function GetValidator returns, called on s while the config is c
Validator(c, s) ==
    IF \E i \in 1..Len(s) : s[i] = InvalidByte THEN FALSE
    ELSE IF c.TruncateLength > 0 /\ RuneCountInString(s) > c.TruncateLength THEN FALSE
    ELSE IF c.Form \in ValidForms /\ ~IsNormalString(c.Form, s) THEN FALSE
    ELSE IF HasPrefixAt(s, 1, <<c.WordSeparator>>)
            \/ (s # <<>> /\ s[Len(s)] = c.WordSeparator) THEN FALSE
    ELSE ValidatorLoop(c, s, FALSE)

\* the package's defaultConfig, defaultGenerator, defaultValidator
defaultConfig == NewSlugConfig
defaultGenerator == Configure(defaultConfig, <<>>)
defaultValidator(s) == Validator(defaultConfig, s)
IsSlug(s) == defaultValidator(s)


\* the package's GenerateSlug
PackageGenerateSlug(in) == GenerateSlug(defaultGenerator, in)

(***************************************************************************)
(* Each specification below drives one part of the library; the variables  *)
(* of the other parts stay as they are here.                               *)
(***************************************************************************)
NoCall == [gen |-> 0, pc |-> 0, in0 |-> <<>>, in |-> <<>>]

ConfigIdle == config = NewSlugConfig /\ cin = <<>> /\ gens = <<>> /\ out = <<>> /\ valid = <<>>
DefaultIdle == din = <<>> /\ dout = <<>> /\ dvalid = <<>>
GenIdle == heap = <<>> /\ origin = <<>> /\ gin = <<>> /\ gcall = NoCall
MergeIdle == mapHeap = <<>> /\ margs = <<>> /\ mres = 0
ReplIdle == cr = NewConstantReplacer(<<>>) /\ crin = <<>> /\ crout = <<>>
RuneIdle == rhandler = HKeepAll /\ rin = <<>> /\ rpos = 0 /\ rbuf = <<>> /\ rlast = <<>>
PrimIdle == pf = NilFunc /\ pin = <<>> /\ pout = <<>>
FrameIdle ==
    /\ fconfig = NewSlugConfig /\ fmaps = <<>> /\ fgens = <<>> /\ fvals = <<>> /\ fcall = <<>>
    /\ fchanges = 0
OnceIdle ==
    /\ ocr = NewConstantReplacer(<<>>) /\ omutex = 0 /\ opc = <<>> /\ oin = <<>> /\ oout = <<>>
    /\ obuilt = <<>> /\ ocalls = 0
LangIdle == languageMaps = <<>> /\ lheap = <<>> /\ lcall = <<>>

(***************************************************************************)
(* SpecRune: a rune handler turned into a string modifier and run over an  *)
(* input, one code point per step.                                         *)
(***************************************************************************)
EuroDollar == ("U+20AC" :> <<"e", "u", "r", "o">>) @@ ("$" :> <<"d", "o", "l", "l", "a", "r">>)

BaseHandlers ==
    {HSpace(<<"-">>), HSpace(<<"+", "+", "+">>), HDash, HUmlaut, HValidSlug, HKeepAll,
     HFromMap(EuroDollar)}

RECURSIVE HandlerLists(_)
HandlerLists(n) ==
    IF n = 0 THEN {<<>>}
    ELSE LET shorter == HandlerLists(n - 1)
         IN shorter \cup {Append(l, h) : l \in {t \in shorter : Len(t) = n - 1}, h \in BaseHandlers}

RuneHandlers == BaseHandlers \cup {HChain(l) : l \in HandlerLists(MaxChainLen)}

RuneAlphabet == {"a", " ", "U+00F6", "$", "0xFF"}

UmlautExample ==
    <<"a", "b", "c", "d", "1", "2", "3", "U+00F6", "U+00E4", "U+00FC",
      "U+00D6", "U+00C4", "U+00DC", "U+00DF", "U+1E9E">>

UmlautExpected ==
    <<"o", "e", "a", "e", "u", "e", "O", "e", "A", "e", "U", "e", "s", "s", "s", "s">>

RuneInit ==
    /\ \/ rhandler \in RuneHandlers /\ rin \in StringsUpTo(RuneAlphabet, MaxRuneInputLen)
       \/ rhandler = HUmlaut /\ rin = UmlautExample
    /\ rpos = 0 /\ rbuf = <<>> /\ rlast = <<>>
    /\ ConfigIdle /\ DefaultIdle /\ GenIdle /\ MergeIdle /\ ReplIdle /\ PrimIdle /\ FrameIdle /\ OnceIdle /\ LangIdle

\* one iteration of the loop over the input: the handler is called on the next
\* code point and its replacement, if it handles it, is appended
RuneHandleNext ==
    /\ rpos < Len(rin)
    /\ rlast' = <<[r |-> RuneOf(rin[rpos + 1]),
                   res |-> HandleRune(rhandler, RuneOf(rin[rpos + 1]))]>>
    /\ rbuf' = RuneHandleStep(rhandler, rbuf, rin[rpos + 1])
    /\ rpos' = rpos + 1
    /\ UNCHANGED <<rhandler, rin, configVars, defaultVars, genVars, mergeVars, replVars, primVars, frameVars, onceVars, langVars>>

RuneNext == RuneHandleNext

SpecRune == RuneInit /\ [][RuneNext]_vars


\* C9: a chained handler answers with the replacement of its first function that
\* handles the code point, in the order the functions were given, and with
\* (false, "") when none does, the empty chain included.
C9_ChainFirstHandlerWins ==
    (rlast # <<>> /\ rhandler.op = "ChainRuneHandleFuncs") =>
        LET funcs == rhandler.funcs
            r == rlast[1].r
            res == rlast[1].res
            accepting == {i \in 1..Len(funcs) : HandleRune(funcs[i], r).handles}
        IN IF accepting = {}
           THEN res.handles = FALSE /\ res.to = <<>>
           ELSE LET first == CHOOSE i \in accepting : \A j \in accepting : i <= j
                IN res.handles = TRUE /\ res.to = HandleRune(funcs[first], r).to

\* two functions of a chain handle the code point differently and the first one decided
C9_Witness ==
    /\ rlast # <<>>
    /\ rhandler.op = "ChainRuneHandleFuncs"
    /\ Len(rhandler.funcs) = 2
    /\ HandleRune(rhandler.funcs[1], rlast[1].r).handles
    /\ HandleRune(rhandler.funcs[2], rlast[1].r).handles
    /\ HandleRune(rhandler.funcs[1], rlast[1].r).to # HandleRune(rhandler.funcs[2], rlast[1].r).to
    /\ rlast[1].res.to = HandleRune(rhandler.funcs[1], rlast[1].r).to

RuneContribution(h, u) ==
    LET res == HandleRune(h, RuneOf(u)) IN IF res.handles THEN res.to ELSE <<>>

\* C10: the modifier made from a handler returns, in input order, the replacements
\* of the code points the handler handles and nothing for the others; with
\* TranslateUmlaut alone the letters and digits of the example are dropped.
C10_UnhandledRunesDropped ==
    /\ rbuf = Concat([i \in 1..rpos |-> RuneContribution(rhandler, rin[i])])
    /\ rpos = Len(rin) => rbuf = RuneHandleFuncToStringModifierFunc(rhandler, rin)
    /\ (rhandler.op = "TranslateUmlaut" /\ rin = UmlautExample /\ rpos = Len(rin))
           => rbuf = UmlautExpected

\* the example has been run to its end and its letters and digits are gone
C10_Witness ==
    /\ rhandler.op = "TranslateUmlaut"
    /\ rin = UmlautExample
    /\ rpos = Len(rin)
    /\ rbuf = UmlautExpected
    /\ Len(rbuf) > 0


(***************************************************************************)
(* SpecMerge: maps live in mapHeap and are named by their position there,  *)
(* as Go maps are references; MergeStringReplaceMaps is called once on the *)
(* maps margs and the caller may store into any map afterwards.            *)
(***************************************************************************)
MergeKeys == {<<"a">>, <<"b">>}
MergeValues == {<<"b">>, <<"c">>, <<"X">>}
SmallMaps == UNION {[D -> MergeValues] : D \in SUBSET MergeKeys}

MergeInit ==
    /\ \E n \in 0..MaxMaps :
          /\ mapHeap \in [1..n -> SmallMaps]
          /\ margs = [i \in 1..n |-> i]
    /\ mres = 0
    /\ ConfigIdle /\ DefaultIdle /\ GenIdle /\ ReplIdle /\ RuneIdle /\ PrimIdle /\ FrameIdle /\ OnceIdle /\ LangIdle

\* res := MergeStringReplaceMaps(maps...): the result is a map of its own
MergeCall ==
    /\ mres = 0
    /\ mapHeap' = Append(mapHeap, MergeStringReplaceMaps([i \in 1..Len(margs) |-> mapHeap[margs[i]]]))
    /\ mres' = Len(mapHeap) + 1
    /\ UNCHANGED <<margs, configVars, defaultVars, genVars, replVars, runeVars, primVars, frameVars, onceVars, langVars>>

\* m[key] = value on the map id, by the caller, after the merge
MapStore(id, key, value) ==
    /\ mres # 0
    /\ mapHeap' = [mapHeap EXCEPT ![id] =
                      [k \in DOMAIN @ \cup {key} |-> IF k = key THEN value ELSE @[k]]]
    /\ UNCHANGED <<margs, mres, configVars, defaultVars, genVars, replVars, runeVars, primVars, frameVars, onceVars, langVars>>

MergeNext ==
    \/ MergeCall
    \/ \E id \in DOMAIN mapHeap, key \in MergeKeys, value \in MergeValues : MapStore(id, key, value)

SpecMerge == MergeInit /\ [][MergeNext]_vars

\* C6: the call returns a new map whose keys are the union of the keys of its
\* arguments, each with the value of the earliest argument that has the key; the
\* arguments are left as they were, and without arguments the result is empty.
C6_MergeFirstWins ==
    [][(mres = 0 /\ mres' # 0) =>
          LET res == mapHeap'[mres']
              holders(key) == {i \in 1..Len(margs) : key \in DOMAIN mapHeap[margs[i]]}
              earliest(key) == CHOOSE i \in holders(key) : \A j \in holders(key) : i <= j
          IN /\ mres' \notin DOMAIN mapHeap
             /\ DOMAIN res = UNION {DOMAIN mapHeap[margs[i]] : i \in 1..Len(margs)}
             /\ \A key \in DOMAIN res : res[key] = mapHeap[margs[earliest(key)]][key]
             /\ \A id \in DOMAIN mapHeap : mapHeap'[id] = mapHeap[id]
             /\ (margs = <<>> => DOMAIN res = {})]_vars

\* a key of two arguments with different values has the first one's value in the
\* result, and the second argument gave a key the first one lacks
C6_Witness ==
    /\ mres # 0
    /\ Len(margs) = 2
    /\ \E key \in DOMAIN mapHeap[1] \cap DOMAIN mapHeap[2] :
          /\ mapHeap[1][key] # mapHeap[2][key]
          /\ mapHeap[mres][key] = mapHeap[1][key]
    /\ \E key \in DOMAIN mapHeap[2] \ DOMAIN mapHeap[1] :
          mapHeap[mres][key] = mapHeap[2][key]


(***************************************************************************)
(* SpecReplace: one ConstantReplacer, its OldNew list open to the caller,  *)
(* its matcher built by the first Modify.                                  *)
(***************************************************************************)
ReplOlds == {<<"a">>, <<"b">>, <<"a", "b">>}
ReplNews == {<<"b">>, <<"c">>}
ReplAlphabet == {"a", "b", "c"}

RECURSIVE PairLists(_)
PairLists(n) ==
    IF n = 0 THEN {<<>>}
    ELSE LET shorter == PairLists(n - 1)
         IN shorter \cup {l \o <<old, new>> :
                            l \in {t \in shorter : Len(t) = 2 * (n - 1)},
                            old \in ReplOlds, new \in ReplNews}

Foo == <<"f", "o", "o">>
Bar == <<"b", "a", "r">>
Baz == <<"b", "a", "z">>
FooBarBaz == <<Foo, Bar, Bar, Baz>>
AbcMap == (<<"a">> :> <<"b">>) @@ (<<"b">> :> <<"c">>) @@ (<<"c">> :> <<"d">>)
Abcde == <<"a", "b", "c", "d", "e">>
Bcdde == <<"b", "c", "d", "d", "e">>

ReplInit ==
    /\ \/ \E oldnew \in PairLists(MaxPairs) :
             /\ cr = NewConstantReplacer(oldnew)
             /\ crin \in StringsUpTo(ReplAlphabet, MaxReplInputLen)
       \/ cr = NewConstantReplacer(FooBarBaz) /\ crin = Foo
       \/ \E keys \in KeyOrders(AbcMap) :
             /\ cr = NewConstantReplacer(NewConstantReplacerFromMap(AbcMap, keys))
             /\ crin = Abcde
    /\ crout = <<>>
    /\ ConfigIdle /\ DefaultIdle /\ GenIdle /\ MergeIdle /\ RuneIdle /\ PrimIdle /\ FrameIdle /\ OnceIdle /\ LangIdle

\* replacer.Modify(in)
ReplModify ==
    /\ cr' = OnceDo(cr)
    /\ crout' = <<ConstantReplacerModify(cr'.replacer[1], crin)>>
    /\ UNCHANGED <<crin, configVars, defaultVars, genVars, mergeVars, runeVars, primVars, frameVars, onceVars, langVars>>

\* replacer.OldNew = append(replacer.OldNew, old, new), by the caller
ReplAppend(old, new) ==
    /\ Len(cr.OldNew) < 2 * MaxPairs
    /\ cr' = [cr EXCEPT !.OldNew = @ \o <<old, new>>]
    /\ UNCHANGED <<crin, crout, configVars, defaultVars, genVars, mergeVars, runeVars, primVars, frameVars, onceVars, langVars>>

ReplNext ==
    \/ ReplModify
    \/ \E old \in ReplOlds, new \in ReplNews : ReplAppend(old, new)

SpecReplace == ReplInit /\ [][ReplNext]_vars

\* C7: Modify replaces in one scan of the input and does not look at the text it
\* inserted: an input without any key comes back unchanged; with one-code-point
\* keys every code point of the input is replaced by the value of the first pair
\* whose key it is, or kept; foo->bar, bar->baz turns "foo" into "bar"; the map
\* {a:b, b:c, c:d} turns "abcde" into "bcdde".
C7_SingleScanNoRescan ==
    crout # <<>> =>
        LET oldnew == cr.replacer[1]
            pairs == 1..(Len(oldnew) \div 2)
            old(k) == oldnew[2 * k - 1]
            new(k) == oldnew[2 * k]
            first(u) == CHOOSE k \in pairs : old(k) = <<u>> /\ \A j \in pairs : old(j) = <<u>> => k <= j
        IN /\ (\A k \in pairs : ~Occurs(crin, old(k))) => crout[1] = crin
           /\ (\A k \in pairs : Len(old(k)) = 1) =>
                 crout[1] = Concat([i \in 1..Len(crin) |->
                               IF \E k \in pairs : old(k) = <<crin[i]>>
                               THEN new(first(crin[i])) ELSE <<crin[i]>>])
           /\ (oldnew = FooBarBaz /\ crin = Foo) => crout[1] = Bar
           /\ (crin = Abcde /\ \E keys \in KeyOrders(AbcMap) :
                                  oldnew = NewConstantReplacerFromMap(AbcMap, keys))
                 => crout[1] = Bcdde

\* the replacer made from {a:b, b:c, c:d} has turned "abcde" into "bcdde"
C7_Witness ==
    /\ crout = <<Bcdde>>
    /\ crin = Abcde
    /\ cr.onceDone
    /\ \E keys \in KeyOrders(AbcMap) : cr.replacer[1] = NewConstantReplacerFromMap(AbcMap, keys)


(***************************************************************************)
(* SpecGen: generators live in heap and are named by their position there  *)
(* as Go pointers do.  origin records how each one was made.  A call of    *)
(* GenerateSlug runs statement by statement in gcall.                      *)
(***************************************************************************)
GenConfig ==
    [NewSlugConfig EXCEPT !.TruncateLength = 2, !.WordSeparator = "_", !.ToLower = FALSE]

GenBase == {NewDefaultSlugGenerator, NewEmptySlugGenerator, Configure(GenConfig, <<>>)}

GenModifiers ==
    {FConstantReplacer(<< <<" ">>, <<"_">> >>), FConstantReplacer(<< <<"b">>, <<"-">> >>)}

GenAlphabet == {"B", " "}

Made(kind, parent, modifier, gen) ==
    [kind |-> kind, parent |-> parent, modifier |-> modifier, made |-> gen]

GenInit ==
    /\ \E gen \in GenBase :
          /\ heap = <<gen>>
          /\ origin = <<Made("new", 0, NilFunc, gen)>>
    /\ gin \in StringsUpTo(GenAlphabet, MaxGenInputLen)
    /\ gcall = NoCall
    /\ ConfigIdle /\ DefaultIdle /\ MergeIdle /\ ReplIdle /\ RuneIdle /\ PrimIdle /\ FrameIdle /\ OnceIdle /\ LangIdle

CanDerive(i) ==
    /\ Len(heap) < MaxHeap
    /\ gcall.pc \in {0, 4}
    /\ i \in {1, Len(heap)}

Allocate(kind, i, modifier, gen) ==
    /\ heap' = Append(heap, gen)
    /\ origin' = Append(origin, Made(kind, i, modifier, gen))
    /\ UNCHANGED <<gin, gcall, configVars, defaultVars, mergeVars, replVars, runeVars, primVars, frameVars, onceVars, langVars>>

\* heap[i].WithPreProcessor(modifier)
GenWithPreProcessor(i, modifier) ==
    /\ CanDerive(i)
    /\ Allocate("WithPreProcessor", i, modifier, WithPreProcessor(heap[i], modifier))

\* heap[i].WithProcessor(modifier)
GenWithProcessor(i, modifier) ==
    /\ CanDerive(i)
    /\ Allocate("WithProcessor", i, modifier, WithProcessor(heap[i], modifier))

\* heap[i].WithFinalizer(modifier)
GenWithFinalizer(i, modifier) ==
    /\ CanDerive(i)
    /\ Allocate("WithFinalizer", i, modifier, WithFinalizer(heap[i], modifier))

\* heap[i].GenerateSlug(gin) is entered
GenCall(i) ==
    /\ gcall.pc \in {0, 4}
    /\ gcall' = [gen |-> i, pc |-> 1, in0 |-> gin, in |-> gin]
    /\ UNCHANGED <<heap, origin, gin, configVars, defaultVars, mergeVars, replVars, runeVars, primVars, frameVars, onceVars, langVars>>

\* the next statement of the call; a panic ends the call
GenStep ==
    /\ gcall.pc \in 1..3
    /\ LET res == GenerateSlugStep(heap[gcall.gen], gcall.pc, gcall.in)
       IN gcall' = [gcall EXCEPT !.in = res, !.pc = IF res = Panic THEN 4 ELSE @ + 1]
    /\ UNCHANGED <<heap, origin, gin, configVars, defaultVars, mergeVars, replVars, runeVars, primVars, frameVars, onceVars, langVars>>

GenNext ==
    \/ \E i \in DOMAIN heap, modifier \in GenModifiers : GenWithPreProcessor(i, modifier)
    \/ \E i \in DOMAIN heap, modifier \in GenModifiers : GenWithProcessor(i, modifier)
    \/ \E i \in DOMAIN heap, modifier \in GenModifiers : GenWithFinalizer(i, modifier)
    \/ \E i \in DOMAIN heap : GenCall(i)
    \/ GenStep

SpecGen == GenInit /\ [][GenNext]_vars


Phases(gen, s) == Apply(gen.Finalizer, Apply(gen.Processor, Apply(gen.PreProcessor, s)))

\* C3: a call of GenerateSlug applies PreProcessor, then Processor, then Finalizer,
\* each once: after its first statement the value is PreProcessor(s), after the
\* second Processor(PreProcessor(s)), and it returns
\* Finalizer(Processor(PreProcessor(s))); Modify returns the same value.
C3_ThreePhasesInOrder ==
    gcall.pc # 0 =>
        LET gen == heap[gcall.gen]
            s == gcall.in0
            pre == Apply(gen.PreProcessor, s)
            proc == Apply(gen.Processor, pre)
        IN /\ gcall.pc = 1 => gcall.in = s
           /\ gcall.pc = 2 => gcall.in = pre
           /\ gcall.pc = 3 => gcall.in = proc
           /\ gcall.pc = 4 => /\ gcall.in = Phases(gen, s)
                              /\ Modify(gen, s) = gcall.in

\* the default generator has returned from " B", which every phase changed
C3_Witness ==
    /\ gcall.pc = 4
    /\ heap[gcall.gen] = NewDefaultSlugGenerator
    /\ gcall.in0 = <<" ", "B">>
    /\ Apply(heap[gcall.gen].PreProcessor, gcall.in0) = <<" ", "b">>
    /\ Apply(heap[gcall.gen].Processor, <<" ", "b">>) = <<"-", "b">>
    /\ gcall.in = <<"b">>

\* C4: the generator WithPreProcessor(m) returns for g has g's Processor and
\* Finalizer, and on s gives g.Finalizer(g.Processor(g.PreProcessor(m(s)))).
C4_WithPreProcessorKeepsOtherStages ==
    \A i \in DOMAIN heap :
        origin[i].kind = "WithPreProcessor" =>
            LET g == heap[origin[i].parent]
                m == origin[i].modifier
            IN /\ heap[i].Processor = g.Processor
               /\ heap[i].Finalizer = g.Finalizer
               /\ GenerateSlug(heap[i], gin) = Phases(g, Apply(m, gin))

\* C5: the generator WithProcessor(m) or WithFinalizer(m) returns for g runs m
\* first in that stage and has g's other two stages; no generator is changed by
\* the derivations made after it, so each still gives the output it gave when made.
C5_DerivationsLeaveOriginal ==
    \A i \in DOMAIN heap :
        LET d == heap[i]
            g == heap[origin[i].parent]
            m == origin[i].modifier
            afterPre == Apply(d.PreProcessor, gin)
            afterProc == Apply(d.Processor, afterPre)
        IN /\ origin[i].kind = "WithProcessor" =>
                 /\ d.PreProcessor = g.PreProcessor
                 /\ d.Finalizer = g.Finalizer
                 /\ Apply(d.Processor, afterPre) = Apply(g.Processor, Apply(m, afterPre))
                 /\ GenerateSlug(d, gin) =
                        Apply(g.Finalizer, Apply(g.Processor, Apply(m, Apply(g.PreProcessor, gin))))
           /\ origin[i].kind = "WithFinalizer" =>
                 /\ d.PreProcessor = g.PreProcessor
                 /\ d.Processor = g.Processor
                 /\ Apply(d.Finalizer, afterProc) = Apply(g.Finalizer, Apply(m, afterProc))
                 /\ GenerateSlug(d, gin) =
                        Apply(g.Finalizer, Apply(m, Apply(g.Processor, Apply(g.PreProcessor, gin))))
           /\ heap[i] = origin[i].made
           /\ GenerateSlug(heap[i], gin) = GenerateSlug(origin[i].made, gin)

\* the default generator, after a WithProcessor and a WithFinalizer derivation
\* whose modifiers change the output, still turns " B" into "b"
C5_Witness ==
    /\ Len(heap) = 3
    /\ heap[1] = NewDefaultSlugGenerator
    /\ origin[2].kind = "WithProcessor" /\ origin[2].parent = 1
    /\ origin[3].kind = "WithFinalizer" /\ origin[3].parent = 2
    /\ gin = <<" ", "B">>
    /\ GenerateSlug(heap[1], gin) = <<"b">>
    /\ GenerateSlug(heap[2], gin) # GenerateSlug(heap[1], gin)
    /\ GenerateSlug(heap[3], gin) # GenerateSlug(heap[2], gin)


(***************************************************************************)
(* SpecDefault: the package's GenerateSlug on an input, then IsSlug on the *)
(* slug.                                                                   *)
(***************************************************************************)
DefaultAlphabet == {"a", "B", " ", "-", "_", "U+00D6", "U+2014", "U+FB01", "0xFF"}

DefaultInit ==
    /\ din \in StringsUpTo(DefaultAlphabet, MaxDefaultInputLen)
    /\ dout = <<>>
    /\ dvalid = <<>>
    /\ ConfigIdle /\ GenIdle /\ MergeIdle /\ ReplIdle /\ RuneIdle /\ PrimIdle /\ FrameIdle /\ OnceIdle /\ LangIdle

\* GenerateSlug(din)
DefaultGenerateSlug ==
    /\ dout = <<>>
    /\ dout' = <<PackageGenerateSlug(din)>>
    /\ UNCHANGED <<din, dvalid, configVars, genVars, mergeVars, replVars, runeVars, primVars, frameVars, onceVars, langVars>>

\* IsSlug on the slug
DefaultIsSlug ==
    /\ dout # <<>>
    /\ dvalid = <<>>
    /\ dvalid' = <<IsSlug(dout[1])>>
    /\ UNCHANGED <<din, dout, configVars, genVars, mergeVars, replVars, runeVars, primVars, frameVars, onceVars, langVars>>

DefaultNext == DefaultGenerateSlug \/ DefaultIsSlug

SpecDefault == DefaultInit /\ [][DefaultNext]_vars

\* C2: the slug GenerateSlug returns has only a-z, 0-9, '-' and '_', neither
\* starts nor ends with '-', has no two '-' in a row, and IsSlug accepts it.
C2_DefaultSlugIsSlug ==
    /\ dout # <<>> =>
          LET s == dout[1]
          IN /\ \A i \in 1..Len(s) : s[i] \in LowerLetters \cup Digits \cup {"-", "_"}
             /\ s # <<>> => (s[1] # "-" /\ s[Len(s)] # "-")
             /\ \A i \in 1..(Len(s) - 1) : ~(s[i] = "-" /\ s[i + 1] = "-")
    /\ dvalid # <<>> => dvalid[1] = TRUE

\* an input with an invalid byte, a letter outside ASCII and a run of two
\* separators in its middle gave a slug with one '-', which IsSlug accepted
C2_Witness ==
    /\ din = <<"0xFF", "U+00D6", " ", "B">>
    /\ dout = << <<"o", "e", "-", "b">> >>
    /\ dvalid = <<TRUE>>

(***************************************************************************)
(* Spec: a SlugConfig, the generators Configure returns for it, a slug of  *)
(* cin from one of them, and the verdict of the config's validator on it.  *)
(***************************************************************************)
MapA == (<<"a">> :> <<"B">>)
MapB == (<<"a">> :> <<"c">>) @@ (<<"a", "b">> :> <<"d">>)
ReplaceMapLists == {<<>>, <<MapA>>, <<MapA, MapB>>}

Configs ==
    [TruncateLength : -1..MaxTruncateLength,
     WordSeparator : {"-", "_", "+"},
     Form : {"NFKC", "NFD", "Form(4)"},
     ReplaceMaps : ReplaceMapLists,
     ToLower : BOOLEAN]

ConfigAlphabet == {"a", "b", "B", " ", "U+00D6"}

Init ==
    /\ config \in Configs
    /\ cin \in StringsUpTo(ConfigAlphabet, MaxInputLen)
    /\ gens = <<>>
    /\ out = <<>>
    /\ valid = <<>>
    /\ DefaultIdle /\ GenIdle /\ MergeIdle /\ ReplIdle /\ RuneIdle /\ PrimIdle /\ FrameIdle /\ OnceIdle /\ LangIdle

\* config.Configure(); range visits the keys of the merged map in some order
ConfigConfigure ==
    /\ Len(gens) < MaxGenerators
    /\ \E keys \in KeyOrders(MergeStringReplaceMaps(config.ReplaceMaps)) :
          gens' = Append(gens, Configure(config, keys))
    /\ UNCHANGED <<config, cin, out, valid, defaultVars, genVars, mergeVars, replVars, runeVars, primVars, frameVars, onceVars, langVars>>

\* gens[i].GenerateSlug(cin)
ConfigGenerateSlug(i) ==
    /\ out' = <<GenerateSlug(gens[i], cin)>>
    /\ valid' = <<>>
    /\ UNCHANGED <<config, cin, gens, defaultVars, genVars, mergeVars, replVars, runeVars, primVars, frameVars, onceVars, langVars>>

\* config.GetValidator() called on the slug
ConfigValidate ==
    /\ out # <<>>
    /\ valid = <<>>
    /\ valid' = <<Validator(config, out[1])>>
    /\ UNCHANGED <<config, cin, gens, out, defaultVars, genVars, mergeVars, replVars, runeVars, primVars, frameVars, onceVars, langVars>>

Next ==
    \/ ConfigConfigure
    \/ \E i \in DOMAIN gens : ConfigGenerateSlug(i)
    \/ ConfigValidate

Spec == Init /\ [][Next]_vars

\* C1: the validator of a config accepts every slug a generator configured from
\* that config returns.
C1_ValidatorAcceptsOwnSlugs == valid # <<>> => valid[1] = TRUE

\* C8: two generators configured from the same config return the same slug.
C8_ConfigureDeterministic ==
    \A i, j \in DOMAIN gens : GenerateSlug(gens[i], cin) = GenerateSlug(gens[j], cin)


(***************************************************************************)
(* SpecPrim: one string transform primitive called on an input, and then   *)
(* called again on its own result.                                         *)
(***************************************************************************)
PrimAlphabet == {"a", "-", "_", "U+00D6", "0xFF"}
PrimSeps == {<<"-">>, <<"-", "-">>, <<>>}
PrimLengths == -2..MaxPrimLength
\* the finalize phase a config with this separator and length compiles to
PrimFinal(c, n) ==
    FChain(GetPhases([NewSlugConfig EXCEPT !.WordSeparator = c, !.TruncateLength = n], <<>>).final)
PrimRunes == {"-", "a", "U+FFFD"}
PrimCutsets == {<<"-">>, <<"-", "_">>, <<>>, <<"U+FFFD">>, <<"0xFF">>}
PrimWordMaps ==
    {EmptyMap,
     (<<"a">> :> <<"_", "_">>),
     (<<"a">> :> <<"-">>) @@ (<<"a", "a">> :> <<>>),
     (<<>> :> <<"a">>) @@ (<<"-">> :> <<"_">>)}

PrimFuncs ==
    {FTruncate(n, sep) : n \in PrimLengths, sep \in PrimSeps}
    \cup {FReplaceMulti(c) : c \in PrimRunes}
    \cup {FTrim(cutset) : cutset \in PrimCutsets}
    \cup {FWordReplacer(m, sep) : m \in PrimWordMaps, sep \in PrimSeps}
    \cup {PrimFinal(c, n) : c \in {"-", "_"}, n \in PrimLengths}

\* the inputs and results of the examples and tests
FooDashBar == Foo \o <<"-">> \o Bar
Foobar == Foo \o Bar
Fooba == <<"f", "o", "o", "b", "a">>
DashADashDashFoo == <<"-", "a", "-", "-">> \o Foo
DashADash == <<"-", "a", "-">>
ADashAaDashA == <<"a", "-", "a", "a", "-", "a">>
Hello == <<"h", "e", "l", "l", "o">>
DashesHelloDashes == <<"-", "-", "-", "-">> \o Hello \o <<"-", "-", "-", "_">>
Something == <<"s", "o", "m", "e", "t", "h", "i", "n", "g">>
AtMap == (<<"@">> :> <<"a", "t">>)
SomethingAtDashAt == Something \o <<"@", "-", "@">>

PrimExamples ==
    {<<FTruncate(5, <<"-">>), FooDashBar>>,
     <<FTruncate(5, <<"-">>), Foobar>>,
     <<FTruncate(5, <<"-">>), DashADashDashFoo>>,
     <<FTruncate(3, <<"-">>), ADashAaDashA>>,
     <<FTrim(<<"-", "_">>), DashesHelloDashes>>,
     <<FWordReplacer(AtMap, <<"-">>), SomethingAtDashAt>>,
     <<FConstantReplacer(<< <<"@">>, <<"a", "t">> >>), SomethingAtDashAt>>}

PrimInit ==
    /\ \/ /\ pf \in PrimFuncs
          /\ pin \in StringsUpTo(PrimAlphabet, MaxPrimInputLen)
       \/ \E e \in PrimExamples : pf = e[1] /\ pin = e[2]
    /\ pout = <<>>
    /\ ConfigIdle /\ DefaultIdle /\ GenIdle /\ MergeIdle /\ ReplIdle /\ RuneIdle /\ FrameIdle /\ OnceIdle /\ LangIdle

\* pf(pin)
PrimCall ==
    /\ pout = <<>>
    /\ pout' = <<Apply(pf, pin)>>
    /\ UNCHANGED <<pf, pin, configVars, defaultVars, genVars, mergeVars, replVars, runeVars, frameVars, onceVars, langVars>>

\* pf(pf(pin))
PrimCallAgain ==
    /\ Len(pout) = 1
    /\ pout' = Append(pout, Apply(pf, pout[1]))
    /\ UNCHANGED <<pf, pin, configVars, defaultVars, genVars, mergeVars, replVars, runeVars, frameVars, onceVars, langVars>>

PrimNext == PrimCall \/ PrimCallAgain

SpecPrim == PrimInit /\ [][PrimNext]_vars

IsPrefix(p, s) == Len(p) <= Len(s) /\ SubSeq(s, 1, Len(p)) = p

\* C11: for maxLength >= 0 the result of the truncate function is a prefix of
\* its input of at most maxLength code points, and is empty for maxLength = 0.
C11_TruncateIsBoundedPrefix ==
    (pf.op = "NewTruncateFunc" /\ pf.maxLength >= 0 /\ pout # <<>>) =>
        /\ IsPrefix(pout[1], pin)
        /\ RuneCountInString(pout[1]) <= pf.maxLength
        /\ pf.maxLength = 0 => pout[1] = <<>>


\* the first k words joined by sep, and the number of code points of that
RECURSIVE JoinWords(_, _, _)
JoinWords(words, sep, k) ==
    IF k = 1 THEN words[1] ELSE JoinWords(words, sep, k - 1) \o sep \o words[k]

JoinedLength(words, sep, k) == Len(ToRunes(JoinWords(words, sep, k)))

\* what word-boundary truncation of s at maxLength is to be
TruncateExpected(maxLength, sep, s) ==
    LET words == Split(s, sep)
        fits == {k \in 1..Len(words) : \A j \in 1..k : JoinedLength(words, sep, j) <= maxLength}
    IN IF Len(ToRunes(words[1])) >= maxLength
       THEN SubSeq(ToRunes(words[1]), 1, maxLength)
       ELSE JoinWords(words, sep, CHOOSE k \in fits : \A j \in fits : j <= k)

\* C12: for maxLength >= 0 and a non-empty input, the result is the first
\* maxLength code points of the first word when that word has at least maxLength
\* of them, and otherwise the words up to, not including, the first one with
\* which the length would exceed maxLength; no word after that one is taken.
C12_TruncateAtWordBoundary ==
    (pf.op = "NewTruncateFunc" /\ pf.maxLength >= 0 /\ pin # <<>> /\ pout # <<>>) =>
        /\ pout[1] = TruncateExpected(pf.maxLength, pf.wordSep, pin)
        /\ (pf = FTruncate(5, <<"-">>) /\ pin = FooDashBar) => pout[1] = Foo
        /\ (pf = FTruncate(5, <<"-">>) /\ pin = Foobar) => pout[1] = Fooba
        /\ (pf = FTruncate(5, <<"-">>) /\ pin = DashADashDashFoo) => pout[1] = DashADash
        /\ (pf = FTruncate(3, <<"-">>) /\ pin = ADashAaDashA) => pout[1] = <<"a">>

\* "a-aa-a" truncated at 3: "aa" does not fit and the "a" behind it is not taken
C12_Witness ==
    /\ pf = FTruncate(3, <<"-">>)
    /\ pin = ADashAaDashA
    /\ pout # <<>> /\ pout[1] = <<"a">>


\* C13: with a negative length the truncate function returns its input as it
\* is, and the finalize phase of a config with a negative TruncateLength has no
\* truncate step: it collapses and trims and nothing else.
C13_NegativeLengthNoTruncation ==
    /\ (pf.op = "NewTruncateFunc" /\ pf.maxLength < 0 /\ pout # <<>>) => pout[1] = pin
    /\ (pf.op = "ChainStringModifierFuncs" /\ pout # <<>>) =>
          \A c \in {"-", "_"}, n \in PrimLengths :
              (n < 0 /\ pf = PrimFinal(c, n)) =>
                  /\ \A i \in 1..Len(pf.funcs) : pf.funcs[i].op # "NewTruncateFunc"
                  /\ pout[1] = NewTrimFunc(<<c>>, NewReplaceMultiOccurrencesFunc(c, pin))

\* the finalize phase of the default config returned an input of the greatest
\* length as long as it was
C13_Witness ==
    /\ pf = PrimFinal("-", -1)
    /\ pin = [i \in 1..MaxPrimInputLen |-> "a"]
    /\ pout # <<>> /\ pout[1] = pin


\* the elements of r at the positions in keep, in order
RECURSIVE KeepAt(_, _, _)
KeepAt(r, keep, i) ==
    IF i > Len(r) THEN <<>>
    ELSE (IF i \in keep THEN <<r[i]>> ELSE <<>>) \o KeepAt(r, keep, i + 1)

\* the code points of s without those c that directly follow a c
CollapseExpected(c, s) ==
    LET r == ToRunes(s)
    IN KeepAt(r, {i \in 1..Len(r) : ~(i > 1 /\ r[i] = c /\ r[i - 1] = c)}, 1)

\* C14: the collapse function leaves one c of every maximal run of c and every
\* other code point as it is and where it is; its result has no two c in a row,
\* and collapsing the result again changes nothing.
C14_CollapseRunsIdempotent ==
    (pf.op = "NewReplaceMultiOccurrencesFunc" /\ pout # <<>>) =>
        /\ pout[1] = CollapseExpected(pf.rune, pin)
        /\ \A i \in 1..(Len(pout[1]) - 1) : ~(pout[1][i] = pf.rune /\ pout[1][i + 1] = pf.rune)
        /\ Len(pout) = 2 => pout[2] = pout[1]

\* "-a--" collapsed to "-a-", and collapsed again
C14_Witness ==
    /\ pf = FReplaceMulti("-")
    /\ pin = <<"-", "a", "-", "-">>
    /\ pout = << <<"-", "a", "-">>, <<"-", "a", "-">> >>


\* u is read as a code point that cutset has
InCutset(cutset, u) == \E i \in 1..Len(cutset) : RuneOf(cutset[i]) = RuneOf(u)

\* C15: the trim function returns the part of its input between the longest
\* prefix and the longest suffix of code points of the cutset, the cutset being a
\* set of code points; the result neither starts nor ends with one of them, and
\* trimming the result again changes nothing.
C15_TrimCutsetIdempotent ==
    (pf.op = "NewTrimFunc" /\ pout # <<>>) =>
        LET res == pout[1]
        IN /\ \E i \in 1..(Len(pin) + 1), j \in 0..Len(pin) :
                 /\ res = SubSeq(pin, i, j)
                 /\ \A k \in 1..(i - 1) : InCutset(pf.cutset, pin[k])
                 /\ \A k \in (j + 1)..Len(pin) : InCutset(pf.cutset, pin[k])
           /\ res # <<>> =>
                 (~InCutset(pf.cutset, res[1]) /\ ~InCutset(pf.cutset, res[Len(res)]))
           /\ (pf = FTrim(<<"-", "_">>) /\ pin = DashesHelloDashes) => res = Hello
           /\ Len(pout) = 2 => pout[2] = res

\* "----hello---_" trimmed with the cutset "-_" to "hello", and trimmed again
C15_Witness ==
    /\ pf = FTrim(<<"-", "_">>)
    /\ pin = DashesHelloDashes
    /\ pout = <<Hello, Hello>>


SomethingAtDashAtWords == Something \o <<"@", "-", "a", "t">>
SomethingAtDashAtAll == Something \o <<"a", "t", "-", "a", "t">>

\* C16: the word replacer returns the words of its input, those that are a key
\* of the word map replaced by the key's value and all others as they are, with
\* the separator between them as in the input; a key inside a longer word stays.
\* "something@-@" gives "something@-at", and "somethingat-at" with ConstantReplacer.
C16_WordReplacerWholeWords ==
    /\ (pf.op = "WordReplacer" /\ pout # <<>>) =>
          LET words == Split(pin, pf.wordSeparator)
              new == [i \in 1..Len(words) |->
                         IF words[i] \in DOMAIN pf.wordMap THEN pf.wordMap[words[i]]
                         ELSE words[i]]
          IN /\ words # <<>> =>
                   /\ JoinWords(words, pf.wordSeparator, Len(words)) = pin
                   /\ pout[1] = JoinWords(new, pf.wordSeparator, Len(words))
             /\ words = <<>> => pout[1] = <<>>
             /\ (pf = FWordReplacer(AtMap, <<"-">>) /\ pin = SomethingAtDashAt) =>
                   pout[1] = SomethingAtDashAtWords
    /\ (pf.op = "ConstantReplacer" /\ pin = SomethingAtDashAt /\ pout # <<>>) =>
          pout[1] = SomethingAtDashAtAll

\* the example of WordReplacer was run
C16_Witness ==
    /\ pf = FWordReplacer(AtMap, <<"-">>)
    /\ pin = SomethingAtDashAt
    /\ pout # <<>> /\ pout[1] = SomethingAtDashAtWords

\* C17: the word replacer returns the empty string for the empty string,
\* whatever the keys of its word map are.
C17_WordReplacerEmptyInput ==
    (pf.op = "WordReplacer" /\ pin = <<>> /\ pout # <<>>) => pout[1] = <<>>


(***************************************************************************)
(* SpecValid: the validator of a config, taken and called on a string      *)
(* while the config stays as it is.                                        *)
(***************************************************************************)
ValidConfigs ==
    [TruncateLength : -1..MaxTruncateLength,
     WordSeparator : {"-", "_", "+"},
     Form : {"NFKC", "NFD", "Form(4)"},
     ReplaceMaps : {<<>>},
     ToLower : BOOLEAN]

ValidAlphabet == {"a", "B", "-", "_", "+", "U+00D6", "0xFF"}

ValidInit ==
    /\ config \in ValidConfigs
    /\ cin \in StringsUpTo(ValidAlphabet, MaxInputLen)
    /\ gens = <<>>
    /\ out = <<>>
    /\ valid = <<>>
    /\ DefaultIdle /\ GenIdle /\ MergeIdle /\ ReplIdle /\ RuneIdle /\ PrimIdle /\ FrameIdle /\ OnceIdle /\ LangIdle

\* config.GetValidator()(cin)
ValidCall ==
    /\ valid = <<>>
    /\ valid' = <<Validator(config, cin)>>
    /\ UNCHANGED <<config, cin, gens, out, defaultVars, genVars, mergeVars, replVars, runeVars, primVars, frameVars, onceVars, langVars>>

ValidNext == ValidCall

SpecValid == ValidInit /\ [][ValidNext]_vars

\* the six conditions on a slug s of the config c
IsValidUTF8(s) == \A i \in 1..Len(s) : s[i] # InvalidByte
IsWithinLength(c, s) == c.TruncateLength <= 0 \/ Len(s) <= c.TruncateLength
IsInForm(c, s) == c.Form \in {"NFC", "NFD", "NFKC", "NFKD"} => IsNormalString(c.Form, s)
HasNoSeparatorAtEnds(c, s) == s = <<>> \/ (s[1] # c.WordSeparator /\ s[Len(s)] # c.WordSeparator)
HasOnlySlugRunes(c, s) ==
    \A i \in 1..Len(s) :
        s[i] \in LowerLetters \cup Digits \cup {"-", "_"}
                 \cup (IF c.ToLower THEN {} ELSE UpperLetters)
HasNoSeparatorTwice(c, s) ==
    \A i \in 1..(Len(s) - 1) : ~(s[i] = c.WordSeparator /\ s[i + 1] = c.WordSeparator)

\* C18: the validator accepts s exactly when s is valid UTF-8, within the
\* length (TruncateLength <= 0 sets none), in the normal form, without the
\* separator at either end, of slug runes only (upper case only without ToLower)
\* and without two separators in a row; it accepts the empty string.
C18_ValidatorSixChecks ==
    valid # <<>> =>
        /\ valid[1] = (/\ IsValidUTF8(cin)
                       /\ IsWithinLength(config, cin)
                       /\ IsInForm(config, cin)
                       /\ HasNoSeparatorAtEnds(config, cin)
                       /\ HasOnlySlugRunes(config, cin)
                       /\ HasNoSeparatorTwice(config, cin))
        /\ cin = <<>> => valid[1] = TRUE

\* with the separator '_', no ToLower and TruncateLength 0, "B--" is accepted
C18_Witness ==
    /\ config.TruncateLength = 0 /\ config.WordSeparator = "_" /\ ~config.ToLower
    /\ cin = <<"B", "-", "-">>
    /\ valid = <<TRUE>>


(***************************************************************************)
(* SpecFrame: one SlugConfig that its owner keeps changing, the maps its   *)
(* ReplaceMaps field refers to, and the generators and validators taken    *)
(* from it in between.  ReplaceMaps holds references: a list of indices of *)
(* fmaps.  A generator is kept with the slugs it gave when it was made, a  *)
(* validator with the verdicts it gave then.                               *)
(***************************************************************************)
FrameInputs == {<<"a">>, <<"a", " ", "B">>}
FrameSlugs == {<<"B">>, <<"a", "-", "-", "a">>}
FrameKeys == {<<"a">>}
FrameValues == {<<"b">>, <<"_">>}
FrameFields ==
    [TruncateLength |-> {-1, 1},
     WordSeparator |-> {"-", "_"},
     Form |-> {"NFKC", "NFD"},
     ToLower |-> BOOLEAN,
     ReplaceMaps |-> {<<>>}]

\* the config with the maps its ReplaceMaps refers to
Deref(c) == [c EXCEPT !.ReplaceMaps = [i \in DOMAIN c.ReplaceMaps |-> fmaps[c.ReplaceMaps[i]]]]

FrameInit ==
    /\ fconfig \in {NewSlugConfig, [NewSlugConfig EXCEPT !.ReplaceMaps = <<1>>]}
    /\ fmaps = <<(<<"a">> :> <<"b">>)>>
    /\ fgens = <<>>
    /\ fvals = <<>>
    /\ fcall = <<>>
    /\ fchanges = 0
    /\ ConfigIdle /\ DefaultIdle /\ GenIdle /\ MergeIdle /\ ReplIdle /\ RuneIdle /\ PrimIdle /\ OnceIdle /\ LangIdle

\* a generator that compiles the config again whenever it is used
FrameSlug_readsConfig(g, s) ==
    LET c == Deref(fconfig)
    IN GenerateSlug(Configure(c, CHOOSE keys \in KeyOrders(MergeStringReplaceMaps(c.ReplaceMaps)) : TRUE), s)

\* g.GenerateSlug(s): the phases hold what Configure copied into them
FrameSlug(g, s) == GenerateSlug(g.gen, s)

\* the validator's call on s: its closure reads the config it was taken from
FrameVerdict(v, s) == Validator(fconfig, s)

\* g := config.Configure()
FrameConfigure ==
    /\ Len(fgens) < MaxFrameGenerators
    /\ \E keys \in KeyOrders(MergeStringReplaceMaps(Deref(fconfig).ReplaceMaps)) :
          LET gen == Configure(Deref(fconfig), keys)
          IN fgens' = Append(fgens, [gen |-> gen,
                                     slugs |-> [s \in FrameInputs |-> GenerateSlug(gen, s)],
                                     used |-> FALSE])
    /\ UNCHANGED <<fconfig, fmaps, fvals, fcall, fchanges>>
    /\ UNCHANGED <<configVars, defaultVars, genVars, mergeVars, replVars, runeVars, primVars, onceVars, langVars>>

\* v := config.GetValidator()
FrameGetValidator ==
    /\ Len(fvals) < MaxFrameValidators
    /\ fvals' = Append(fvals, [verdicts |-> [s \in FrameSlugs |-> Validator(fconfig, s)]])
    /\ UNCHANGED <<fconfig, fmaps, fgens, fcall, fchanges>>
    /\ UNCHANGED <<configVars, defaultVars, genVars, mergeVars, replVars, runeVars, primVars, onceVars, langVars>>

\* config.<field> = value
FrameAssign(field, value) ==
    /\ fchanges < MaxFrameChanges
    /\ fconfig[field] # value
    /\ fconfig' = [fconfig EXCEPT ![field] = value]
    /\ fchanges' = fchanges + 1
    /\ UNCHANGED <<fmaps, fgens, fvals, fcall>>
    /\ UNCHANGED <<configVars, defaultVars, genVars, mergeVars, replVars, runeVars, primVars, onceVars, langVars>>

\* config.AddReplaceMap(m), m being the map fmaps[id]
FrameAddReplaceMap(id) ==
    /\ fchanges < MaxFrameChanges
    /\ Len(fconfig.ReplaceMaps) < MaxFrameMaps
    /\ fconfig' = AddReplaceMap(fconfig, id)
    /\ fchanges' = fchanges + 1
    /\ UNCHANGED <<fmaps, fgens, fvals, fcall>>
    /\ UNCHANGED <<configVars, defaultVars, genVars, mergeVars, replVars, runeVars, primVars, onceVars, langVars>>

\* m[key] = value
FrameMapStore(id, key, value) ==
    /\ fchanges < MaxFrameChanges
    /\ ~(key \in DOMAIN fmaps[id] /\ fmaps[id][key] = value)
    /\ fmaps' = [fmaps EXCEPT ![id] =
                    [k \in DOMAIN @ \cup {key} |-> IF k = key THEN value ELSE @[k]]]
    /\ fchanges' = fchanges + 1
    /\ UNCHANGED <<fconfig, fgens, fvals, fcall>>
    /\ UNCHANGED <<configVars, defaultVars, genVars, mergeVars, replVars, runeVars, primVars, onceVars, langVars>>

\* delete(m, key)
FrameMapDelete(id, key) ==
    /\ fchanges < MaxFrameChanges
    /\ key \in DOMAIN fmaps[id]
    /\ fmaps' = [fmaps EXCEPT ![id] = [k \in DOMAIN @ \ {key} |-> @[k]]]
    /\ fchanges' = fchanges + 1
    /\ UNCHANGED <<fconfig, fgens, fvals, fcall>>
    /\ UNCHANGED <<configVars, defaultVars, genVars, mergeVars, replVars, runeVars, primVars, onceVars, langVars>>

\* fgens[i].GenerateSlug(s)
FrameGenerateSlug(i, s) ==
    /\ fcall' = <<[kind |-> "GenerateSlug", index |-> i, in |-> s,
                   slug |-> FrameSlug(fgens[i], s), ok |-> TRUE]>>
    /\ fgens' = [fgens EXCEPT ![i].used = TRUE]
    /\ UNCHANGED <<fconfig, fmaps, fvals, fchanges>>
    /\ UNCHANGED <<configVars, defaultVars, genVars, mergeVars, replVars, runeVars, primVars, onceVars, langVars>>

\* fvals[i](s)
FrameValidate(i, s) ==
    /\ fcall' = <<[kind |-> "Validator", index |-> i, in |-> s,
                   slug |-> <<>>, ok |-> FrameVerdict(fvals[i], s)]>>
    /\ UNCHANGED <<fconfig, fmaps, fgens, fvals, fchanges>>
    /\ UNCHANGED <<configVars, defaultVars, genVars, mergeVars, replVars, runeVars, primVars, onceVars, langVars>>

FrameNext ==
    \/ FrameConfigure
    \/ FrameGetValidator
    \/ \E field \in DOMAIN FrameFields : \E value \in FrameFields[field] : FrameAssign(field, value)
    \/ \E id \in DOMAIN fmaps : FrameAddReplaceMap(id)
    \/ \E id \in DOMAIN fmaps, key \in FrameKeys, value \in FrameValues : FrameMapStore(id, key, value)
    \/ \E id \in DOMAIN fmaps, key \in FrameKeys : FrameMapDelete(id, key)
    \/ \E i \in DOMAIN fgens, s \in FrameInputs : FrameGenerateSlug(i, s)
    \/ \E i \in DOMAIN fvals, s \in FrameSlugs : FrameValidate(i, s)

SpecFrame == FrameInit /\ [][FrameNext]_vars

\* C19: a validator gives, on every string, the verdict it gave when it was
\* taken from the config, whatever has been assigned to the config's fields since.
C19_ValidatorKeepsSnapshot ==
    (fcall # <<>> /\ fcall[1].kind = "Validator") =>
        fcall[1].ok = fvals[fcall[1].index].verdicts[fcall[1].in]

\* C20: a generator gives, on every input, the slug it gave when Configure made
\* it, whatever has been done since to the config, to the maps the config lists,
\* or by compiling the config again, and whether the generator was used before.
C20_GeneratorKeepsSnapshot ==
    /\ \A i \in DOMAIN fgens : \A s \in FrameInputs : FrameSlug(fgens[i], s) = fgens[i].slugs[s]
    /\ (fcall # <<>> /\ fcall[1].kind = "GenerateSlug") =>
          fcall[1].slug = fgens[fcall[1].index].slugs[fcall[1].in]

\* the first generator is called after the config was changed and compiled
\* again, the second generator gives another slug for the input, the first its own
C20_Witness ==
    /\ Len(fgens) = 2
    /\ fchanges > 0
    /\ fcall # <<>> /\ fcall[1].kind = "GenerateSlug" /\ fcall[1].index = 1
    /\ fcall[1].slug = fgens[1].slugs[fcall[1].in]
    /\ fcall[1].slug # fgens[2].slugs[fcall[1].in]


(***************************************************************************)
(* SpecOnce: goroutines call Modify on one ConstantReplacer.  once.Do is   *)
(* taken apart into the steps of sync.Once: the load of the done flag, the *)
(* lock, the second look at the flag under the lock with the build, and    *)
(* the store of the flag with the unlock.  The caller may append to OldNew *)
(* at any time.  obuilt lists the OldNew of every build that ran; oin[g]   *)
(* keeps, next to the input, what OldNew and the done flag were when the   *)
(* call began and whether some Modify had returned by then.                *)
(***************************************************************************)
Goroutines == 1..MaxGoroutines
OnceInputs == {<<"a">>, <<"a", "b">>}
OnceLists == {<<>>, <<<<"a">>, <<"b">>>>}
OnceOlds == {<<"a">>, <<"b">>}
OnceNews == {<<"c">>}
NoModify == [in |-> <<>>, OldNew |-> <<>>, done |-> FALSE, after |-> FALSE]

OnceInit ==
    /\ \E oldnew \in OnceLists : ocr = NewConstantReplacer(oldnew)
    /\ omutex = 0
    /\ opc = [g \in Goroutines |-> "idle"]
    /\ oin = [g \in Goroutines |-> NoModify]
    /\ oout = [g \in Goroutines |-> <<>>]
    /\ obuilt = <<>>
    /\ ocalls = 0
    /\ ConfigIdle /\ DefaultIdle /\ GenIdle /\ MergeIdle /\ ReplIdle /\ RuneIdle /\ PrimIdle /\ FrameIdle /\ LangIdle

\* goroutine g calls replacer.Modify(in)
OnceModify(g, in) ==
    /\ opc[g] = "idle"
    /\ ocalls < MaxOnceCalls
    /\ ocalls' = ocalls + 1
    /\ oin' = [oin EXCEPT ![g] = [in |-> in, OldNew |-> ocr.OldNew, done |-> ocr.onceDone,
                                  after |-> \E h \in Goroutines : oout[h] # <<>>]]
    /\ oout' = [oout EXCEPT ![g] = <<>>]
    /\ opc' = [opc EXCEPT ![g] = "load"]
    /\ UNCHANGED <<ocr, omutex, obuilt>>
    /\ UNCHANGED <<configVars, defaultVars, genVars, mergeVars, replVars, runeVars, primVars, frameVars, langVars>>

\* once.Do: the done flag is read without the lock
OnceLoad(g) ==
    /\ opc[g] = "load"
    /\ opc' = [opc EXCEPT ![g] = IF ocr.onceDone THEN "replace" ELSE "lock"]
    /\ UNCHANGED <<ocr, omutex, oin, oout, obuilt, ocalls>>
    /\ UNCHANGED <<configVars, defaultVars, genVars, mergeVars, replVars, runeVars, primVars, frameVars, langVars>>

\* once.Do: the lock is taken when it is free
OnceLock(g) ==
    /\ opc[g] = "lock"
    /\ omutex = 0
    /\ omutex' = g
    /\ opc' = [opc EXCEPT ![g] = "slow"]
    /\ UNCHANGED <<ocr, oin, oout, obuilt, ocalls>>
    /\ UNCHANGED <<configVars, defaultVars, genVars, mergeVars, replVars, runeVars, primVars, frameVars, langVars>>

\* a once.Do that builds under the lock without a second look at the done flag
OnceDoSlow_noRecheck(g) ==
    /\ opc[g] = "slow"
    /\ ocr' = [ocr EXCEPT !.replacer = <<ocr.OldNew>>]
    /\ obuilt' = Append(obuilt, ocr.OldNew)
    /\ opc' = [opc EXCEPT ![g] = "built"]
    /\ UNCHANGED <<omutex, oin, oout, ocalls>>
    /\ UNCHANGED <<configVars, defaultVars, genVars, mergeVars, replVars, runeVars, primVars, frameVars, langVars>>

\* once.Do under the lock: when the flag is still unset,
\* replacer.replacer = strings.NewReplacer(replacer.OldNew...)
OnceDoSlow(g) ==
    /\ opc[g] = "slow"
    /\ IF ocr.onceDone
       THEN /\ omutex' = 0
            /\ opc' = [opc EXCEPT ![g] = "replace"]
            /\ UNCHANGED <<ocr, obuilt>>
       ELSE /\ ocr' = [ocr EXCEPT !.replacer = <<ocr.OldNew>>]
            /\ obuilt' = Append(obuilt, ocr.OldNew)
            /\ opc' = [opc EXCEPT ![g] = "built"]
            /\ UNCHANGED omutex
    /\ UNCHANGED <<oin, oout, ocalls>>
    /\ UNCHANGED <<configVars, defaultVars, genVars, mergeVars, replVars, runeVars, primVars, frameVars, langVars>>

\* once.Do: the done flag is set and the lock given back
OnceStore(g) ==
    /\ opc[g] = "built"
    /\ ocr' = [ocr EXCEPT !.onceDone = TRUE]
    /\ omutex' = 0
    /\ opc' = [opc EXCEPT ![g] = "replace"]
    /\ UNCHANGED <<oin, oout, obuilt, ocalls>>
    /\ UNCHANGED <<configVars, defaultVars, genVars, mergeVars, replVars, runeVars, primVars, frameVars, langVars>>

\* return replacer.replacer.Replace(in); a nil matcher panics
OnceReplace(g) ==
    /\ opc[g] = "replace"
    /\ oout' = [oout EXCEPT ![g] = <<IF ocr.replacer = <<>> THEN Panic
                                     ELSE ConstantReplacerModify(ocr.replacer[1], oin[g].in)>>]
    /\ opc' = [opc EXCEPT ![g] = "idle"]
    /\ UNCHANGED <<ocr, omutex, oin, obuilt, ocalls>>
    /\ UNCHANGED <<configVars, defaultVars, genVars, mergeVars, replVars, runeVars, primVars, frameVars, langVars>>

\* replacer.OldNew = append(replacer.OldNew, old, new), by the caller
OnceAppend(old, new) ==
    /\ Len(ocr.OldNew) < 2 * MaxPairs
    /\ ocr' = [ocr EXCEPT !.OldNew = @ \o <<old, new>>]
    /\ UNCHANGED <<omutex, opc, oin, oout, obuilt, ocalls>>
    /\ UNCHANGED <<configVars, defaultVars, genVars, mergeVars, replVars, runeVars, primVars, frameVars, langVars>>

OnceNext ==
    \/ \E g \in Goroutines, in \in OnceInputs : OnceModify(g, in)
    \/ \E g \in Goroutines : OnceLoad(g)
    \/ \E g \in Goroutines : OnceLock(g)
    \/ \E g \in Goroutines : OnceDoSlow(g)
    \/ \E g \in Goroutines : OnceStore(g)
    \/ \E g \in Goroutines : OnceReplace(g)
    \/ \E old \in OnceOlds, new \in OnceNews : OnceAppend(old, new)

SpecOnce == OnceInit /\ [][OnceNext]_vars

\* C21: under every interleaving of the goroutines the matcher is built at most
\* once; a call that has reached Replace finds the done flag set and the matcher
\* of that one build in place; every result is the replacement by the pairs
\* OldNew held when the build ran, whatever was appended to OldNew since.
C21_MatcherBuiltOnce ==
    /\ Len(obuilt) <= 1
    /\ \A g \in Goroutines :
          opc[g] = "replace" =>
             /\ ocr.onceDone
             /\ obuilt # <<>>
             /\ ocr.replacer = <<obuilt[1]>>
    /\ \A g \in Goroutines :
          oout[g] # <<>> =>
             /\ obuilt # <<>>
             /\ oout[g][1] = ConstantReplacerModify(obuilt[1], oin[g].in)

\* two calls that both began before the done flag was set have returned, and a
\* third call, begun after a Modify had returned and after OldNew was changed,
\* has returned what the pairs of the build give and not what OldNew gives
C21_Witness ==
    \E g, h, k \in Goroutines :
       /\ g # h /\ g # k /\ h # k
       /\ oout[g] # <<>> /\ oout[h] # <<>> /\ oout[k] # <<>>
       /\ ~oin[g].done /\ ~oin[h].done
       /\ oin[k].after /\ oin[k].done
       /\ oin[k].OldNew # obuilt[1]
       /\ oout[k][1] # ConstantReplacerModify(oin[k].OldNew, oin[k].in)


(***************************************************************************)
(* The language maps of langs.go.                                          *)
(***************************************************************************)
LanguageEnglish == "en"
LanguageGerman == "de"

EnglishReplaceDict == (<<"@">> :> <<"a", "t">>) @@ (<<"&">> :> <<"e", "n", "d">>)
GermanReplaceDict == (<<"@">> :> <<"a", "t">>) @@ (<<"&">> :> <<"u", "n", "d">>)

\* an AddLanguageMap that leaves a language that is registered as it is
AddLanguageMap_keepsFirst(registry, language, m) ==
    IF language \in DOMAIN registry THEN registry
    ELSE [l \in DOMAIN registry \cup {language} |-> IF l = language THEN m ELSE registry[l]]

\* languageMaps[language] = m
AddLanguageMap(registry, language, m) ==
    [l \in DOMAIN registry \cup {language} |-> IF l = language THEN m ELSE registry[l]]

\* GetLanguageMap(languages...): the maps of the languages the registry has,
\* in the order of the arguments, merged
GetLanguageMap(registry, languages) ==
    LET mapList == SelectSeq(languages, LAMBDA l : l \in DOMAIN registry)
    IN MergeStringReplaceMaps([i \in 1..Len(mapList) |-> registry[mapList[i]]])

(***************************************************************************)
(* SpecLang: the registry languageMaps holds map references (positions in  *)
(* lheap); init() registers the two built-in maps.  Callers look languages *)
(* up, register maps they hold, and store into any map.  lcall keeps the   *)
(* registrations in the order they were made, the arguments and the       *)
(* result of the last GetLanguageMap with the number of registrations made *)
(* before it, and how many calls and stores there were.                    *)
(***************************************************************************)
LangCodes == {LanguageEnglish, LanguageGerman, "fr"}
LangCodeLists ==
    {<<>>, <<"fr">>, <<"fr", "fr">>, <<LanguageEnglish>>, <<LanguageGerman>>,
     <<LanguageEnglish, LanguageGerman>>, <<LanguageGerman, LanguageEnglish>>,
     <<LanguageGerman, "fr", LanguageEnglish>>, <<LanguageEnglish, LanguageGerman, LanguageEnglish>>}
LangKeys == {<<"&">>, <<"+">>}
LangValues == {<<"x">>}

\* init()
LangInit ==
    /\ lheap = <<EnglishReplaceDict, GermanReplaceDict>>
    /\ languageMaps = AddLanguageMap(AddLanguageMap(<<>>, LanguageEnglish, 1), LanguageGerman, 2)
    /\ lcall = [adds |-> <<<<LanguageEnglish, 1>>, <<LanguageGerman, 2>>>>,
                languages |-> <<>>, res |-> 0, seen |-> 0, calls |-> 0, stores |-> 0]
    /\ ConfigIdle /\ DefaultIdle /\ GenIdle /\ MergeIdle /\ ReplIdle /\ RuneIdle /\ PrimIdle /\ FrameIdle /\ OnceIdle

\* res := GetLanguageMap(languages...)
LangGetLanguageMap(languages) ==
    /\ lcall.calls < MaxLangCalls
    /\ lheap' = Append(lheap, GetLanguageMap([l \in DOMAIN languageMaps |-> lheap[languageMaps[l]]],
                                             languages))
    /\ lcall' = [lcall EXCEPT !.languages = languages, !.res = Len(lheap) + 1,
                            !.seen = Len(lcall.adds), !.calls = @ + 1]
    /\ UNCHANGED languageMaps
    /\ UNCHANGED <<configVars, defaultVars, genVars, mergeVars, replVars, runeVars, primVars, frameVars, onceVars>>

\* AddLanguageMap(language, m) with m the map id
LangAddLanguageMap(language, id) ==
    /\ Len(lcall.adds) < 2 + MaxLangAdds
    /\ languageMaps' = AddLanguageMap(languageMaps, language, id)
    /\ lcall' = [lcall EXCEPT !.adds = Append(@, <<language, id>>)]
    /\ UNCHANGED lheap
    /\ UNCHANGED <<configVars, defaultVars, genVars, mergeVars, replVars, runeVars, primVars, frameVars, onceVars>>

\* m[key] = value on the map id, by a caller
LangMapStore(id, key, value) ==
    /\ lcall.stores < MaxLangStores
    /\ lheap' = [lheap EXCEPT ![id] =
                    [k \in DOMAIN @ \cup {key} |-> IF k = key THEN value ELSE @[k]]]
    /\ lcall' = [lcall EXCEPT !.stores = @ + 1]
    /\ UNCHANGED languageMaps
    /\ UNCHANGED <<configVars, defaultVars, genVars, mergeVars, replVars, runeVars, primVars, frameVars, onceVars>>

LangNext ==
    \/ \E languages \in LangCodeLists : LangGetLanguageMap(languages)
    \/ \E language \in LangCodes, id \in DOMAIN lheap : LangAddLanguageMap(language, id)
    \/ \E id \in DOMAIN lheap, key \in LangKeys, value \in LangValues : LangMapStore(id, key, value)

SpecLang == LangInit /\ [][LangNext]_vars

\* the languages registered so far, and the map a language was last registered with
LangKnown(adds) == {adds[i][1] : i \in 1..Len(adds)}
LangLatest(adds, language) ==
    LET at == {i \in 1..Len(adds) : adds[i][1] = language}
    IN adds[CHOOSE i \in at : \A j \in at : j <= i][2]

\* C23: GetLanguageMap returns a new map; its keys are the keys of the maps last
\* registered for those of its arguments that were ever registered, each key with
\* the value of the earliest such argument that has it; with no registered
\* argument the result is empty; the maps that existed stay as they were.
C23_GetLanguageMapMerges ==
    [][lcall'.calls # lcall.calls =>
          LET languages == lcall'.languages
              res == lheap'[lcall'.res]
              held == {i \in 1..Len(languages) : languages[i] \in LangKnown(lcall.adds)}
              map(i) == lheap[LangLatest(lcall.adds, languages[i])]
              holders(key) == {i \in held : key \in DOMAIN map(i)}
              earliest(key) == CHOOSE i \in holders(key) : \A j \in holders(key) : i <= j
          IN /\ lcall'.res \notin DOMAIN lheap
             /\ DOMAIN res = UNION {DOMAIN map(i) : i \in held}
             /\ \A key \in DOMAIN res : res[key] = map(earliest(key))[key]
             /\ (held = {} => DOMAIN res = {})
             /\ \A id \in DOMAIN lheap : lheap'[id] = lheap[id]
             /\ lcall'.adds = lcall.adds]_vars

\* a call with an unregistered language and two registered ones, one of them
\* registered anew since init(), whose maps give one key different values, has
\* returned a map with the value of the earlier argument
C23_Witness ==
    LET adds == SubSeq(lcall.adds, 1, lcall.seen)
    IN /\ lcall.calls > 0
       /\ lcall.seen > 2
       /\ \E i, j, u \in 1..Len(lcall.languages) :
             /\ i < j
             /\ lcall.languages[u] \notin LangKnown(adds)
             /\ lcall.languages[i] \in LangKnown(adds)
             /\ lcall.languages[j] \in LangKnown(adds)
             /\ LangLatest(adds, lcall.languages[i]) > 2
             /\ LET first == lheap[LangLatest(adds, lcall.languages[i])]
                    second == lheap[LangLatest(adds, lcall.languages[j])]
                IN \E key \in DOMAIN first \cap DOMAIN second :
                      /\ first[key] # second[key]
                      /\ lheap[lcall.res][key] = first[key]


(***************************************************************************)
(* SpecPipe: configs with every step of the pipeline switched on and off,  *)
(* inputs with invalid bytes and symbols no slug may hold, and the         *)
(* examples of the documentation; Configure and GenerateSlug as in Spec.   *)
(***************************************************************************)
\* the registry after init()
BuiltinLanguageMaps ==
    AddLanguageMap(AddLanguageMap(<<>>, LanguageEnglish, EnglishReplaceDict),
                   LanguageGerman, GermanReplaceDict)

MapUpper == (<<"B">> :> <<"b", "b">>)
MapSpace == (<<" ">> :> <<"B">>)
PipeMapLists == {<<>>, <<MapUpper>>, <<MapSpace>>, <<MapA, MapB>>}

PipeConfigs ==
    [TruncateLength : -1..MaxTruncateLength,
     WordSeparator : {"-", "_", "!"},
     Form : {"NFKC", "Form(4)"},
     ReplaceMaps : PipeMapLists,
     ToLower : BOOLEAN]

PipeAlphabet == {"a", "B", " ", "-", "!", "U+00D6", "0xFF"}

GophersTitle ==
    <<"G", "o", "p", "h", "e", "r", "s", " ", "&", " ", "O", "t", "h", "e",
      "r", " ", "R", "o", "d", "e", "n", "t", "s", ":", " ", "A", " ", "s",
      "u", "r", "v", "e", "y">>
GophersSlug ==
    <<"G", "o", "p", "h", "e", "r", "s", "_", "a", "n", "d", "_", "O", "t",
      "h", "e", "r", "_", "R", "o", "d", "e", "n", "t", "s", "_", "A">>
AragornArwen ==
    <<"A", "r", "a", "g", "o", "r", "n", " ", "&", " ", "A", "r", "w", "e",
      "n">>
AragornSlug ==
    <<"a", "r", "a", "g", "o", "r", "n", "-", "u", "n", "d", "-", "a", "r",
      "w", "e", "n">>

\* README, The Easy Way
ReadmeConfig ==
    AddReplaceMap([NewSlugConfig EXCEPT !.TruncateLength = 30, !.WordSeparator = "_",
                                        !.ToLower = FALSE],
                  GetLanguageMap(BuiltinLanguageMaps, <<LanguageEnglish>>))

HelloWorldBangs ==
    <<"H", "e", "l", "l", "o", " ", "W", "o", "r", "l", "d", "!", "!", "!">>
HelloMoon ==
    <<"h", "e", "l", "l", "o", "-", "m", "o", "o", "n">>
World ==
    <<"w", "o", "r", "l", "d">>
Moon ==
    <<"m", "o", "o", "n">>

\* ExampleSlugConfig_second
WorldMoonConfig == AddReplaceMap(NewSlugConfig, World :> Moon)

HelloWorldAmazing ==
    <<"H", "e", "l", "l", "o", " ", "W", "o", "r", "l", "d", "!", " ", "I",
      "s", "n", "'", "t", " ", "t", "h", "i", "s", " ", "a", "m", "a", "z",
      "i", "n", "g", "?">>
HelloDashWorld ==
    <<"H", "e", "l", "l", "o", "-", "W", "o", "r", "l", "d">>

\* ExampleSlugConfig
ElevenConfig == [NewSlugConfig EXCEPT !.TruncateLength = 11, !.ToLower = FALSE]

\* ExampleGetLanguageMap
GermanConfig == AddReplaceMap(NewSlugConfig, GetLanguageMap(BuiltinLanguageMaps, <<LanguageGerman>>))

PipeExamples ==
    {<<ReadmeConfig, GophersTitle>>, <<GermanConfig, AragornArwen>>,
     <<WorldMoonConfig, HelloWorldBangs>>, <<ElevenConfig, HelloWorldAmazing>>}

PipeInit ==
    /\ \/ /\ config \in PipeConfigs
          /\ cin \in StringsUpTo(PipeAlphabet, MaxInputLen)
       \/ \E e \in PipeExamples : config = e[1] /\ cin = e[2]
    /\ gens = <<>>
    /\ out = <<>>
    /\ valid = <<>>
    /\ DefaultIdle /\ GenIdle /\ MergeIdle /\ ReplIdle /\ RuneIdle /\ PrimIdle /\ FrameIdle /\ OnceIdle /\ LangIdle

PipeNext ==
    \/ ConfigConfigure
    \/ \E i \in DOMAIN gens : ConfigGenerateSlug(i)

SpecPipe == PipeInit /\ [][PipeNext]_vars

\* C22: the English map replaces "@" by "at" and "&" by "and", the German one
\* "&" by "und"; the generator of the README config turns "Gophers & Other
\* Rodents: A survey" into "Gophers_and_Other_Rodents_A", and the default config
\* with the German map turns "Aragorn & Arwen" into "aragorn-und-arwen".
C22_LanguageMapExamples ==
    out # <<>> =>
       /\ (config = ReadmeConfig /\ cin = GophersTitle) =>
             /\ EnglishReplaceDict[<<"@">>] = <<"a", "t">>
             /\ EnglishReplaceDict[<<"&">>] = <<"a", "n", "d">>
             /\ out[1] = GophersSlug
       /\ (config = GermanConfig /\ cin = AragornArwen) =>
             /\ GermanReplaceDict[<<"&">>] = <<"u", "n", "d">>
             /\ out[1] = AragornSlug

\* the code points the steps of a configured generator drop when no key of the
\* replace map holds them
PipeDisallowed == {"!", "0xFF"}

C25_DefaultRoutesAgree ==
    /\ dout # <<>> =>
          /\ dout[1] = GenerateSlug(NewDefaultSlugGenerator, din)
          /\ dout[1] = GenerateSlug(Configure(NewSlugConfig, <<>>), din)
    /\ NewSlugConfig.TruncateLength = -1
    /\ NewSlugConfig.WordSeparator = "-"
    /\ NewSlugConfig.Form = "NFKC"
    /\ NewSlugConfig.ToLower
    /\ NewSlugConfig.ReplaceMaps = <<>>

\* the package function has returned the slug of an input with an upper-case
\* letter, a ligature, a space and an invalid byte
C25_Witness ==
    /\ dout # <<>>
    /\ dout[1] = <<"b", "-", "f", "i">>
    /\ \E i, j, k, l \in 1..Len(din) :
          din[i] = "B" /\ din[j] = " " /\ din[k] = "U+FB01" /\ din[l] = "0xFF"

\* the steps of a configured generator, one after the other, the replacer built
\* from the merged map with its keys in the order keys
PipeSteps(c, keys, s) ==
    LET replaceMap == MergeStringReplaceMaps(c.ReplaceMaps)
        sep == c.WordSeparator
        stripped == IgnoreInvalidUTF8(s)
        normalized == IF c.Form \in ValidForms THEN FormString(c.Form, stripped) ELSE stripped
        lowered == IF c.ToLower THEN ToLower(normalized) ELSE normalized
        replaced == IF DOMAIN replaceMap # {}
                    THEN ReplacerReplace(NewConstantReplacerFromMap(replaceMap, keys), lowered, 1)
                    ELSE lowered
        handled == RuneHandleLoop(HChain(<<HSpace(<<sep>>), HDash, HUmlaut, HValidSlug>>),
                                  <<>>, replaced)
        collapsed == NewReplaceMultiOccurrencesFunc(sep, handled)
        trimmed == NewTrimFunc(<<sep>>, collapsed)
    IN IF c.TruncateLength >= 0 THEN NewTruncateFunc(c.TruncateLength, <<sep>>, trimmed)
       ELSE trimmed

\* C26: a configured generator strips invalid bytes, normalizes when the form is
\* one of the four, lowercases when ToLower is set, replaces by the merged map
\* when it has keys, runs the rune chain, collapses and trims separators and
\* truncates when TruncateLength is not negative, in this order; the map
\* world->moon turns "Hello World!!!" into "hello-moon"; with ToLower set, keys
\* that hold an upper-case letter change nothing.
C26_FixedStepOrder ==
    out # <<>> =>
       LET replaceMap == MergeStringReplaceMaps(config.ReplaceMaps)
       IN /\ \E keys \in KeyOrders(replaceMap) : out[1] = PipeSteps(config, keys, cin)
          /\ (config = WorldMoonConfig /\ cin = HelloWorldBangs) => out[1] = HelloMoon
          /\ (/\ config.ToLower
              /\ \A key \in DOMAIN replaceMap : \E i \in 1..Len(key) : key[i] \in UpperLetters)
                => out[1] = GenerateSlug(Configure([config EXCEPT !.ReplaceMaps = <<>>], <<>>), cin)

\* with ToLower set and the map that replaces a space by "B", an input with an
\* invalid byte, a letter and spaces inside has a slug with "B" in it, cut to
\* the length of the config
C26_Witness ==
    /\ out # <<>>
    /\ config.ToLower
    /\ config.Form = "NFKC"
    /\ config.ReplaceMaps = <<MapSpace>>
    /\ config.TruncateLength = 2
    /\ \E i, j, k \in 1..Len(cin) : cin[i] = "0xFF" /\ cin[j] = " " /\ cin[k] = "a"
    /\ out[1] \in {<<"a", "B">>, <<"B", "a">>}

\* C27: a call of GenerateSlug on the generator of NewEmptySlugGenerator ends
\* with its input unchanged, and a call on a generator derived from it by one
\* With... ends with the added modifier applied to the input and nothing else.
C27_EmptyGeneratorIsIdentity ==
    gcall.pc = 4 =>
       LET made == origin[gcall.gen]
       IN /\ (made.kind = "new" /\ heap[gcall.gen] = NewEmptySlugGenerator)
                => gcall.in = gcall.in0
          /\ (made.kind # "new" /\ origin[made.parent].kind = "new"
                                /\ heap[made.parent] = NewEmptySlugGenerator)
                => gcall.in = Apply(made.modifier, gcall.in0)

\* C28: whatever the separator, the TruncateLength and the input, what the
\* finalize phase (collapse, trim, truncate when the length is not negative)
\* returns neither starts nor ends with the separator and has no two separators
\* next to each other.
C28_FinalizeLeavesCleanSeparators ==
    (pout # <<>> /\ pf.op = "ChainStringModifierFuncs") =>
       LET c == pf.funcs[1].rune
           res == pout[1]
       IN /\ res # Panic
          /\ res # <<>> => (res[1] # c /\ res[Len(res)] # c)
          /\ \A i \in 1..(Len(res) - 1) : ~(res[i] = c /\ res[i + 1] = c)

\* the finalize phase with '-' and length 2 has turned "a--a" into "a": a cut
\* after two code points of the collapsed "a-a" would have ended on the separator
C28_Witness ==
    /\ pf = PrimFinal("-", 2)
    /\ pin = <<"a", "-", "-", "a">>
    /\ pout = <<<<"a">>>>

\* the config c without a length limit
Unlimited(c) == [c EXCEPT !.TruncateLength = -1]

\* C29: for a TruncateLength n that is not negative, the slug of a generator
\* configured from c is NewTruncateFunc(n, separator) of the slug of a generator
\* configured from the same config with TruncateLength -1; it has at most n code
\* points and is empty for n = 0; with n = 11 and ToLower off "Hello World!
\* Isn't this amazing?" gives "Hello-World".
C29_TruncationOfUnlimitedSlug ==
    (out # <<>> /\ config.TruncateLength >= 0) =>
       /\ \A keys \in KeyOrders(MergeStringReplaceMaps(config.ReplaceMaps)) :
             out[1] = NewTruncateFunc(config.TruncateLength, <<config.WordSeparator>>,
                                      GenerateSlug(Configure(Unlimited(config), keys), cin))
       /\ RuneCountInString(out[1]) <= config.TruncateLength
       /\ (config.TruncateLength = 0 => out[1] = <<>>)
       /\ (config = ElevenConfig /\ cin = HelloWorldAmazing) => out[1] = HelloDashWorld

\* the same with the replacer of the unlimited generator built from the keys in
\* the order the replacer of the limited one has them
C29_SameKeyOrder ==
    (out # <<>> /\ config.TruncateLength >= 0) =>
       /\ \A i \in DOMAIN gens :
             out[1] = GenerateSlug(gens[i], cin) =>
                \E keys \in KeyOrders(MergeStringReplaceMaps(config.ReplaceMaps)) :
                   /\ gens[i] = Configure(config, keys)
                   /\ out[1] = NewTruncateFunc(config.TruncateLength, <<config.WordSeparator>>,
                                   GenerateSlug(Configure(Unlimited(config), keys), cin))
       /\ RuneCountInString(out[1]) <= config.TruncateLength
       /\ (config.TruncateLength = 0 => out[1] = <<>>)
       /\ (config = ElevenConfig /\ cin = HelloWorldAmazing) => out[1] = HelloDashWorld

====
